---- MODULE Spec2Model ----
(***************************************************************************)
(* Multilayer-perceptron engine: matrix algebra, activations, loss         *)
(* gradients, the keyed intermediate cache, feedforward, backpropagation   *)
(* and the two gradient accessors.                                         *)
(*                                                                         *)
(* Numbers.  A C double is modelled as a fixed-point integer counting      *)
(* multiples of 1/Unit (Unit = 4: the value 1.0 is 4, 0.5 is 2).  Sums and *)
(* differences are exact; products and quotients are rounded to the        *)
(* nearest multiple, as the floating-point unit rounds to the nearest      *)
(* representable value.  libm's exp and tanh are tabulated at this         *)
(* resolution.                                                             *)
(*                                                                         *)
(* Memory.  Every Matrix lives in `heap`, a map from addresses to matrix   *)
(* values whose domain is the set of live allocations; malloc returns the  *)
(* lowest free address, free removes the address.  Pointers are addresses, *)
(* NULL is 0.                                                              *)
(***************************************************************************)
EXTENDS Integers, Sequences, FiniteSets, TLC

(***************************************************************************)
(* Bounds of the model.                                                    *)
(***************************************************************************)
\* Largest number of layers of a network built by Init.
MaxLayers == 2
\* Heap capacity in matrices; malloc fails (CHECK_MALLOC exits) beyond it.
MaxAddr == 24
\* Number of feedforward/backpropagate calls the driver makes in one run.
MaxCalls == 3
\* Width in bits of size_t in the model (the loop index of backpropagate).
SizeBits == 8
\* Calls of cache_put, cache_get and clear_cache the cache's own driver makes.
MaxCacheOps == 3

(***************************************************************************)
(* Fixed-point arithmetic standing for double arithmetic.                  *)
(***************************************************************************)
Unit == 4

NULL == 0

Abs(x) == IF x < 0 THEN -x ELSE x

\* n / d rounded to the nearest integer (ties away from zero), d # 0.
RoundDiv(n, d) ==
  LET nn == IF d < 0 THEN -n ELSE n
      dd == Abs(d)
  IN IF nn >= 0 THEN (2 * nn + dd) \div (2 * dd)
                ELSE -((2 * (-nn) + dd) \div (2 * dd))

\* a * b on doubles.
FMul(a, b) == RoundDiv(a * b, Unit)

\* The magnitude standing for 1/EPSILON: EPSILON (1e-15) is below the
\* resolution, so x + EPSILON is x except that a division by 0 + EPSILON
\* yields a finite value of very large magnitude and the sign of the dividend.
EpsInv == 1000

\* a / (d + EPSILON) on doubles.
FDivEps(a, d) == IF d = 0 THEN a * EpsInv ELSE RoundDiv(a * Unit, d)

\* a / b on doubles, b # 0.
FDiv(a, b) == RoundDiv(a * Unit, b)

\* exp(k/Unit)*Unit rounded, for k in -24..24 (index k + 25).
ExpTable ==
  << 0, 0, 0, 0, 0, 0, 0, 0, 0, 0, 0, 0, 0, 0, 0, 0, 1, 1, 1, 1, 1, 2, 2, 3,
     4,
     5, 7, 8, 11, 14, 18, 23, 30, 38, 49, 63, 80, 103, 132, 170, 218, 280,
     360, 462, 594, 762, 979, 1257, 1614 >>

\* libm exp at the model's resolution; beyond the table the value saturates
\* (0 below, the last entry above).
Exp(x) ==
  IF x < -24 THEN 0
  ELSE IF x > 24 THEN ExpTable[49]
  ELSE ExpTable[x + 25]

\* tanh(k/Unit)*Unit rounded, for k in 0..6 (index k + 1); 1.0 beyond.
TanhTable == << 0, 1, 2, 3, 3, 3, 4 >>

\* libm tanh at the model's resolution (an odd function).
Tanh(x) ==
  LET a == Abs(x)
      t == IF a > 6 THEN Unit ELSE TanhTable[a + 1]
  IN IF x < 0 THEN -t ELSE t

(***************************************************************************)
(* Matrix values: rows, cols and the flat row-major buffer.  The C index k *)
(* of matrix_data is position k + 1 of data.                               *)
(***************************************************************************)
Matrix(r, c, d) == [rows |-> r, cols |-> c, data |-> d]

\* m->matrix_data[k]
Elem(m, k) == m.data[k + 1]

\* A matrix of the given shape whose buffer element k is f[k], k in 0..r*c-1.
Build(r, c, f) == Matrix(r, c, [k \in 1..(r * c) |-> f[k - 1]])

copy_matrix(m) ==
  Build(m.rows, m.cols, [k \in 0..(m.rows * m.cols - 1) |-> Elem(m, k)])

add_matrix(a, b) ==
  Build(a.rows, a.cols,
        [k \in 0..(a.rows * a.cols - 1) |-> Elem(a, k) + Elem(b, k)])

subtract_matrix(a, b) ==
  Build(a.rows, a.cols,
        [k \in 0..(a.rows * a.cols - 1) |-> Elem(a, k) - Elem(b, k)])

multiply_matrix(a, b) ==
  Build(a.rows, a.cols,
        [k \in 0..(a.rows * a.cols - 1) |-> FMul(Elem(a, k), Elem(b, k))])

\* The same number of elements, whatever the shapes.
SameCount(a, b) == a.rows * a.cols = b.rows * b.cols

\* The precondition of add_matrix, subtract_matrix and multiply_matrix.
SameShape(a, b) == a.rows = b.rows /\ a.cols = b.cols

\* The inner k-loop of dot_matrix for result element (i, j), after n steps.
RECURSIVE DotAcc(_, _, _, _, _)
DotAcc(m1, m2, i, j, n) ==
  IF n = 0 THEN 0
  ELSE DotAcc(m1, m2, i, j, n - 1)
       + FMul(Elem(m1, i * m1.cols + (n - 1)), Elem(m2, (n - 1) * m2.cols + j))

\* The k-loop stopped one term early.
dot_matrix_short(m1, m2) ==
  Build(m1.rows, m2.cols,
        [k \in 0..(m1.rows * m2.cols - 1) |->
           DotAcc(m1, m2, k \div m2.cols, k % m2.cols, m1.cols - 1)])

dot_matrix(m1, m2) ==
  Build(m1.rows, m2.cols,
        [k \in 0..(m1.rows * m2.cols - 1) |->
           DotAcc(m1, m2, k \div m2.cols, k % m2.cols, m1.cols)])

\* The shape exchanged and the buffer left in place.
transpose_matrix_reshape(m) == Matrix(m.cols, m.rows, m.data)

\* result[j * result->cols + i] = m[i * m->cols + j], result->cols = m->rows.
transpose_matrix(m) ==
  Build(m.cols, m.rows,
        [k \in 0..(m.rows * m.cols - 1) |->
           Elem(m, (k % m.rows) * m.cols + (k \div m.rows))])

\* The bias added to the first row only.
add_bias_first_row(m, bias) ==
  Build(m.rows, m.cols,
        [k \in 0..(m.rows * m.cols - 1) |->
           IF k < m.cols THEN Elem(m, k) + Elem(bias, k) ELSE Elem(m, k)])

add_bias_to_matrix(m, bias) ==
  Build(m.rows, m.cols,
        [k \in 0..(m.rows * m.cols - 1) |-> Elem(m, k) + Elem(bias, k % m.cols)])

\* The inner i-loop of sum_matrix_columns for column j, after n rows.
RECURSIVE ColAcc(_, _, _)
ColAcc(m, j, n) ==
  IF n = 0 THEN 0 ELSE ColAcc(m, j, n - 1) + Elem(m, (n - 1) * m.cols + j)

\* The column sums with the first row left out.
sum_matrix_columns_skip_first(m) ==
  Build(1, m.cols, [j \in 0..(m.cols - 1) |-> ColAcc(m, j, m.rows) - Elem(m, j)])

sum_matrix_columns(m) ==
  Build(1, m.cols, [j \in 0..(m.cols - 1) |-> ColAcc(m, j, m.rows)])

(***************************************************************************)
(* Activations and their derivatives (activation.c).  Each returns a new   *)
(* matrix of the operand's shape.                                          *)
(***************************************************************************)
\* The elementwise loop shared by the activations: result[i] = f[m[i]].
Elementwise(m, F(_)) ==
  Build(m.rows, m.cols, [k \in 0..(m.rows * m.cols - 1) |-> F(Elem(m, k))])

\* 1.0 / (1.0 + exp(-x))
Sigmoid1(x) == FDiv(Unit, Unit + Exp(-x))

sigmoid(m) == Elementwise(m, Sigmoid1)

sigmoid_prime(m) ==
  Elementwise(m, LAMBDA x : FMul(Sigmoid1(x), Unit - Sigmoid1(x)))

relu(m) == Elementwise(m, LAMBDA x : IF x > 0 THEN x ELSE 0)

relu_prime(m) == Elementwise(m, LAMBDA x : IF x > 0 THEN Unit ELSE 0)

tanh_activation(m) == Elementwise(m, Tanh)

tanh_prime(m) == Elementwise(m, LAMBDA x : Unit - FMul(Tanh(x), Tanh(x)))

leaky_relu(m, leak_parameter) ==
  Elementwise(m, LAMBDA x : IF x > 0 THEN x ELSE FMul(leak_parameter, x))

leaky_relu_prime(m, leak_parameter) ==
  Elementwise(m, LAMBDA x : IF x > 0 THEN Unit ELSE leak_parameter)

sign_activation(m) ==
  Elementwise(m, LAMBDA x : IF x > 0 THEN Unit ELSE IF x < 0 THEN -Unit ELSE 0)

sign_prime(m) == Elementwise(m, LAMBDA x : 0)

identity_activation(m) == copy_matrix(m)

identity_prime(m) == Elementwise(m, LAMBDA x : Unit)

hard_tanh(m) ==
  Elementwise(m, LAMBDA x : IF x > Unit THEN Unit
                            ELSE IF x < -Unit THEN -Unit ELSE x)

hard_tanh_prime(m) ==
  Elementwise(m, LAMBDA x : IF x > -Unit /\ x < Unit THEN Unit ELSE 0)

\* The first loop of softmax on row i: the maximum of the first n elements.
RECURSIVE RowMax(_, _, _)
RowMax(m, i, n) ==
  IF n = 1 THEN Elem(m, i * m.cols)
  ELSE LET prev == RowMax(m, i, n - 1)
           x == Elem(m, i * m.cols + (n - 1))
       IN IF x > prev THEN x ELSE prev

\* The second loop of softmax on row i: the sum of exp(x - max) over the
\* first n elements.
RECURSIVE RowExpSum(_, _, _, _)
RowExpSum(m, i, mx, n) ==
  IF n = 0 THEN 0
  ELSE RowExpSum(m, i, mx, n - 1) + Exp(Elem(m, i * m.cols + (n - 1)) - mx)

softmax(m) ==
  Build(m.rows, m.cols,
        [k \in 0..(m.rows * m.cols - 1) |->
           LET i == k \div m.cols
               mx == RowMax(m, i, m.cols)
           IN FDiv(Exp(Elem(m, k) - mx), RowExpSum(m, i, mx, m.cols))])

softmax_prime(m) == Elementwise(m, LAMBDA x : FMul(x, Unit - x))

(***************************************************************************)
(* Loss gradients (loss.c), each of the shape of y_hat.                    *)
(***************************************************************************)
\* The elementwise loop shared by the gradients: g[i] = F(y_hat[i], y[i]).
Elementwise2(y_hat, y, F(_, _)) ==
  Build(y_hat.rows, y_hat.cols,
        [k \in 0..(y_hat.rows * y_hat.cols - 1) |->
           F(Elem(y_hat, k), Elem(y, k))])

mean_squared_error_gradient(y_hat, y) ==
  Elementwise2(y_hat, y, LAMBDA p, t : 2 * (p - t))

categorical_cross_entropy_gradient(y_hat, y) ==
  Elementwise2(y_hat, y, LAMBDA p, t : FDivEps(-t, p))

mean_absolute_error_gradient(y_hat, y) ==
  Elementwise2(y_hat, y,
               LAMBDA p, t : IF p > t THEN Unit ELSE IF p < t THEN -Unit ELSE 0)

binary_cross_entropy_gradient(y_hat, y) ==
  Elementwise2(y_hat, y, LAMBDA p, t : FDivEps(p - t, FMul(p, Unit - p)))

\* The enumerators of LossFunctionGradType and the function each selects.
LossGradKinds == {"MSE_GRAD", "CCE_GRAD", "MAE_GRAD", "BCE_GRAD"}

\* Calling the function pointer loss_func_grad(y_hat, y_true).
get_loss_gradient(type, y_hat, y) ==
  CASE type = "MSE_GRAD" -> mean_squared_error_gradient(y_hat, y)
    [] type = "CCE_GRAD" -> categorical_cross_entropy_gradient(y_hat, y)
    [] type = "MAE_GRAD" -> mean_absolute_error_gradient(y_hat, y)
    [] type = "BCE_GRAD" -> binary_cross_entropy_gradient(y_hat, y)

\* The enumeration activation_function.
ActivationKinds ==
  {"RELU", "SIGMOID", "SOFTMAX", "TANH", "LEAKY_RELU", "SIGN", "IDENTITY",
   "HARD_TANH"}

\* The switch of feedforward selecting a = activation(z).
activation_for_layer(layer, z) ==
  CASE layer.activation_type = "SIGMOID" -> sigmoid(z)
    [] layer.activation_type = "RELU" -> relu(z)
    [] layer.activation_type = "TANH" -> tanh_activation(z)
    [] layer.activation_type = "LEAKY_RELU" -> leaky_relu(z, layer.leak_parameter)
    [] layer.activation_type = "SIGN" -> sign_activation(z)
    [] layer.activation_type = "IDENTITY" -> identity_activation(z)
    [] layer.activation_type = "HARD_TANH" -> hard_tanh(z)
    [] layer.activation_type = "SOFTMAX" -> softmax(z)
    [] OTHER -> identity_activation(z)

\* The switch of backprop.c selecting the derivative; SOFTMAX has no case
\* and falls to the default.
activation_derivative_for_layer(layer, z) ==
  CASE layer.activation_type = "SIGMOID" -> sigmoid_prime(z)
    [] layer.activation_type = "RELU" -> relu_prime(z)
    [] layer.activation_type = "TANH" -> tanh_prime(z)
    [] layer.activation_type = "LEAKY_RELU" ->
         leaky_relu_prime(z, layer.leak_parameter)
    [] layer.activation_type = "SIGN" -> sign_prime(z)
    [] layer.activation_type = "IDENTITY" -> identity_prime(z)
    [] layer.activation_type = "HARD_TANH" -> hard_tanh_prime(z)
    [] OTHER -> identity_prime(z)

(***************************************************************************)
(* State.                                                                  *)
(***************************************************************************)
VARIABLES
  heap,   \* live matrices: address -> matrix value
  nn,     \* the NeuralNetwork: num_layers and the layers' fields
  cache,  \* nn->cache->entries: bucket index -> chain of [key, m], head first;
          \* an index outside the domain is a NULL bucket
  pc,     \* where the single thread of control is
  ff,     \* the locals of feedforward while it runs
  bp,     \* the parameters and locals of backpropagate while it runs
  held,   \* the driver's own pointers (NULL when it holds none)
  gradOf, \* which accessor call returned the gradient the driver holds
  calls,  \* feedforward and backpropagate calls made so far
  log,    \* the keys passed to cache_put by the current or last call of
          \* feedforward or backpropagate, in order
  deltaAge \* where the "delta_<i>" entries come from: "none" written so far,
          \* "current" (backpropagate ran after the last feedforward),
          \* "stale" (a feedforward ran after that backpropagate),
          \* "cleared" (clear_cache ran after a backpropagate)

vars == << heap, nn, cache, pc, ff, bp, held, gradOf, calls, log, deltaAge >>

(***************************************************************************)
(* malloc and free.                                                        *)
(***************************************************************************)
Addr == 1..MaxAddr

\* There is room for n more matrices.
Room(h, n) == Cardinality(DOMAIN h) + n <= MaxAddr

\* The lowest address from a on that is not in use.
RECURSIVE LowestFree(_, _)
LowestFree(h, a) == IF a \notin DOMAIN h THEN a ELSE LowestFree(h, a + 1)

\* The address malloc returns: the lowest one not in use.
Fresh(h) == LowestFree(h, 1)

\* create_matrix followed by filling the buffer with the value m:
\* the new heap and the pointer returned.
New(h, m) == [h |-> (Fresh(h) :> m) @@ h, p |-> Fresh(h)]

\* free_matrix(p); freeing NULL only logs a warning.
free_matrix(h, p) ==
  IF p = NULL THEN h ELSE [a \in DOMAIN h \ {p} |-> h[a]]

\* free_matrix on each pointer of a set.
FreeAll(h, ps) == [a \in DOMAIN h \ ps |-> h[a]]

(***************************************************************************)
(* The cache (cache.c).  Keys are the strings' character codes.            *)
(***************************************************************************)
HASH_MAP_SIZE == 1024

\* The loop of hash after the first n characters.  The code keeps the sum in
\* an unsigned long long and reduces it modulo HASH_MAP_SIZE at the end;
\* HASH_MAP_SIZE divides 2^64, so reducing at every step gives the same
\* remainder.
RECURSIVE HashAcc(_, _)
HashAcc(key, n) ==
  IF n = 0 THEN 0 ELSE (HashAcc(key, n - 1) * 31 + key[n]) % HASH_MAP_SIZE

hash(key) == HashAcc(key, Len(key))

\* cache->entries[index]
Bucket(c, index) == IF index \in DOMAIN c THEN c[index] ELSE << >>

\* The walk along a chain: the position of the first entry whose key
\* compares equal (strcmp), 0 when the walk reaches NULL.
RECURSIVE FindFrom(_, _, _)
FindFrom(chain, key, n) ==
  IF n > Len(chain) THEN 0
  ELSE IF chain[n].key = key THEN n
  ELSE FindFrom(chain, key, n + 1)

\* The walk that takes the first entry of the bucket without comparing keys.
FindHead(chain, key) == IF Len(chain) = 0 THEN 0 ELSE 1

Find(chain, key) == FindFrom(chain, key, 1)

\* The stored pointer for key, NULL when the key is absent.
Stored(c, key) ==
  LET chain == Bucket(c, hash(key))
      n == Find(chain, key)
  IN IF n = 0 THEN NULL ELSE chain[n].m

\* A put that overwrites the pointer of an existing entry and leaves the old
\* matrix allocated.
cache_put_keep_old(c, h, key, m) ==
  LET index == hash(key)
      chain == Bucket(c, index)
      n == Find(chain, key)
  IN IF m = NULL THEN [c |-> c, h |-> h]
     ELSE IF n # 0
       THEN [c |-> [c EXCEPT ![index] = [chain EXCEPT ![n].m = m]], h |-> h]
       ELSE [c |-> (index :> (<< [key |-> key, m |-> m] >> \o chain)) @@ c,
             h |-> h]

\* A put that leaves the entry of an existing key as it is and releases m.
cache_put_if_absent(c, h, key, m) ==
  LET index == hash(key)
      chain == Bucket(c, index)
      n == Find(chain, key)
  IN IF m = NULL THEN [c |-> c, h |-> h]
     ELSE IF n # 0
       THEN [c |-> c, h |-> free_matrix(h, m)]
       ELSE [c |-> (index :> (<< [key |-> key, m |-> m] >> \o chain)) @@ c,
             h |-> h]

\* cache_put(cache, key, m): the new entries and the new heap.  A NULL m
\* returns at once; an existing key has its matrix freed and replaced by the
\* pointer m; otherwise a new entry is linked at the head of the bucket.
cache_put(c, h, key, m) ==
  LET index == hash(key)
      chain == Bucket(c, index)
      n == Find(chain, key)
  IN IF m = NULL THEN [c |-> c, h |-> h]
     ELSE IF n # 0
       THEN [c |-> [c EXCEPT ![index] = [chain EXCEPT ![n].m = m]],
             h |-> free_matrix(h, chain[n].m)]
       ELSE [c |-> (index :> (<< [key |-> key, m |-> m] >> \o chain)) @@ c,
             h |-> h]

\* cache_put when malloc(sizeof(CacheEntry)) returns NULL: an existing key is
\* replaced as usual, since that path allocates nothing; for a new key the
\* function returns with the cache as it was, and m is neither stored nor
\* freed.
cache_put_no_entry(c, h, key, m) ==
  LET index == hash(key)
      chain == Bucket(c, index)
      n == Find(chain, key)
  IN IF m = NULL THEN [c |-> c, h |-> h]
     ELSE IF n # 0
       THEN [c |-> [c EXCEPT ![index] = [chain EXCEPT ![n].m = m]],
             h |-> free_matrix(h, chain[n].m)]
       ELSE [c |-> c, h |-> h]

\* A get that hands out the stored pointer itself.
cache_get_stored(c, h, key) == [h |-> h, p |-> Stored(c, key)]

\* cache_get(cache, key): the new heap and the pointer returned, a copy of
\* the stored matrix or NULL.
cache_get(c, h, key) ==
  LET p == Stored(c, key)
  IN IF p = NULL THEN [h |-> h, p |-> NULL] ELSE New(h, copy_matrix(h[p]))

\* The matrices owned by the entries of the cache.
CachePointers(c) ==
  UNION {{c[b][n].m : n \in 1..Len(c[b])} : b \in DOMAIN c}

\* A clear that unlinks every entry and frees no matrix.
clear_cache_leak(c, h) == [c |-> << >>, h |-> h]

\* A clear that frees nothing and leaves every bucket as it is.
clear_cache_nothing(c, h) == [c |-> c, h |-> h]

\* clear_cache: every entry's matrix is freed and every bucket set to NULL.
clear_cache(c, h) == [c |-> << >>, h |-> FreeAll(h, CachePointers(c))]

\* The decimal digits sprintf writes for %zu.
RECURSIVE Digits(_)
Digits(n) ==
  IF n < 10 THEN << 48 + n >> ELSE Digits(n \div 10) \o << 48 + (n % 10) >>

\* "input"
KeyInput == << 105, 110, 112, 117, 116 >>
\* The prefix of the activations used for the pre-activation.
KeyZ_as_A(i) == << 97, 95 >> \o Digits(i)

\* sprintf(key, "z_%zu", i)
KeyZ(i) == << 122, 95 >> \o Digits(i)
\* sprintf(key, "a_%zu", i)
KeyA(i) == << 97, 95 >> \o Digits(i)
\* A delta key that collides with the activation key of the same layer.
KeyDeltaAsActivation(i) == << 97, 95 >> \o Digits(i)

\* sprintf(key, "delta_%zu", i)
KeyDelta(i) == << 100, 101, 108, 116, 97, 95 >> \o Digits(i)

(***************************************************************************)
(* The networks, inputs and targets the driver builds.                     *)
(***************************************************************************)
\* The values the driver writes into weights, by buffer position and layer.
WeightPattern == << 4, -4, 2, 6 >>

\* The values the driver writes into a bias, by position.
BiasPattern == << 2, -2 >>

\* The weight matrix of shape r x c the driver fills for layer l.
WeightsOf(r, c, l) ==
  Build(r, c, [k \in 0..(r * c - 1) |-> WeightPattern[((k + l) % 4) + 1]])

\* The 1 x c bias the driver fills.
BiasOf(c) == Build(1, c, [k \in 0..(c - 1) |-> BiasPattern[(k % 2) + 1]])

\* The weight shapes of the layers of a network of n layers: a chain of
\* width 2, a chain through width 1, and a chain broken at its last layer
\* (the last layer expects one input column, the data has two).
ShapeChoices(n) ==
  { [i \in 1..n |-> << 2, 2 >>],
    [i \in 1..n |-> IF n = 1 THEN << 2, 2 >>
                     ELSE IF i = 1 THEN << 2, 1 >>
                     ELSE IF i = n THEN << 1, 2 >> ELSE << 1, 1 >>],
    [i \in 1..n |-> IF i = n THEN << 1, 2 >> ELSE << 2, 2 >>] }

\* The kind the driver pairs, on the last layer, with a hidden kind.
LastFor(hid) ==
  CASE hid \in {"SIGMOID", "TANH", "SIGN"} -> "SOFTMAX"
    [] hid \in {"RELU", "SOFTMAX", "IDENTITY"} -> "SIGMOID"
    [] OTHER -> "RELU"

\* The activation kinds of the layers: every kind on a single layer; with
\* hidden layers, every kind on the hidden layers, paired with one of three
\* kinds on the last.
KindChoices(n) ==
  IF n = 1 THEN { << k >> : k \in ActivationKinds }
  ELSE { [i \in 1..n |-> IF i = n THEN LastFor(hid) ELSE hid] :
           hid \in ActivationKinds }

\* The batches the driver trains on, each an input and its one-hot target:
\* one row and two rows of two features.
Batches ==
  { [input |-> Matrix(1, 2, << 4, 4 >>), y_true |-> Matrix(1, 2, << 0, 4 >>)],
    [input |-> Matrix(2, 2, << 4, -4, 0, 6 >>),
     y_true |-> Matrix(2, 2, << 4, 0, 0, 4 >>)] }

\* The (loss_type, loss_func_grad) pairs the driver passes: the four
\* matching pairs and one pairing CCE with another gradient function.
LossCalls ==
  { << "MSE", "MSE_GRAD" >>, << "CCE", "CCE_GRAD" >>, << "MAE", "MAE_GRAD" >>,
    << "BCE", "BCE_GRAD" >>, << "CCE", "MSE_GRAD" >> }

\* The value a driver writes into element 0 of a matrix it holds: 3.0.
Written == 3 * Unit

\* The driver's pointer slots.
Slots == {"input", "y_true", "output", "grad"}

\* nn->layers[i], i counted from 0 as in the code.
Layer(i) == nn.layers[i + 1]

\* No call in progress: the locals of feedforward and backpropagate.
NoFF == [i |-> 0, current_output |-> NULL, z_linear |-> NULL, z |-> NULL]
NoBP == [i |-> 0, y_true |-> NULL, loss_type |-> "MSE", grad |-> "MSE_GRAD"]

\* The driver holds no gradient.
NoGrad == [kind |-> "none", layer |-> 0]

\* create_network(n) followed by the driver's construction of each layer:
\* layer i has its weights at address 2i+1 and its bias at 2i+2.
Init ==
  \E n \in 1..MaxLayers :
    \E shapes \in ShapeChoices(n), kinds \in KindChoices(n) :
      /\ heap = [a \in 1..(2 * n) |->
                   IF a % 2 = 1
                     THEN WeightsOf(shapes[(a + 1) \div 2][1],
                                    shapes[(a + 1) \div 2][2], (a - 1) \div 2)
                     ELSE BiasOf(shapes[a \div 2][2])]
      /\ nn = [num_layers |-> n,
               layers |-> [i \in 1..n |->
                             [weights |-> 2 * i - 1,
                              bias |-> 2 * i,
                              activation_type |-> kinds[i],
                              leak_parameter |->
                                IF kinds[i] = "LEAKY_RELU" THEN 1 ELSE 0]]]
      /\ cache = << >>
      /\ pc = "idle"
      /\ ff = NoFF
      /\ bp = NoBP
      /\ held = [s \in Slots |-> NULL]
      /\ gradOf = NoGrad
      /\ calls = 0
      /\ log = << >>
      /\ deltaAge = "none"

\* A failed ASSERT that logs and lets the caller go on.
ExitLogsOnly == pc' = "idle"

\* exit(EXIT_FAILURE) from a failed ASSERT or CHECK_MALLOC: the process
\* ends where it stands, nothing is unwound.
Exit == pc' = "exited"

(***************************************************************************)
(* The driver's own allocations.                                           *)
(***************************************************************************)
\* The driver holds no result of an earlier call: it releases the output of
\* feedforward and a gradient before it makes its next call.
NoResultHeld == held["output"] = NULL /\ held["grad"] = NULL

\* The driver releases the batch it holds, if any, and creates and fills the
\* input and the target of the next one.
NewBatch(b) ==
  /\ pc = "idle"
  /\ NoResultHeld
  /\ IF held["input"] = NULL THEN TRUE ELSE heap[held["input"]] # b.input
  /\ LET h0 == FreeAll(heap, {held["input"], held["y_true"]})
         in == New(h0, b.input)
         y == New(in.h, b.y_true)
     IN /\ Room(h0, 2)
        /\ heap' = y.h
        /\ held' = [held EXCEPT !["input"] = in.p, !["y_true"] = y.p]
  /\ UNCHANGED << deltaAge, nn, cache, pc, ff, bp, calls, gradOf, log >>

\* The driver releases a result it owns with free_matrix.
FreeHeld(s) ==
  /\ pc = "idle"
  /\ held[s] # NULL
  /\ heap' = free_matrix(heap, held[s])
  /\ held' = [held EXCEPT ![s] = NULL]
  /\ gradOf' = IF s = "grad" THEN NoGrad ELSE gradOf
  /\ UNCHANGED << deltaAge, nn, cache, pc, ff, bp, calls, log >>

(***************************************************************************)
(* feedforward (feedforward.c).                                            *)
(***************************************************************************)
\* An entry that stores the copy of the input under "input" before it
\* compares the input's width with the first layer.
FeedforwardCallPutFirst ==
  /\ pc = "idle"
  /\ calls < MaxCalls
  /\ NoResultHeld
  /\ calls' = calls + 1
  /\ IF held["input"] = NULL \/ ~Room(heap, 2)
     THEN Exit /\ UNCHANGED << deltaAge, heap, nn, cache, ff, bp, held, gradOf, log >>
     ELSE LET cur == New(heap, copy_matrix(heap[held["input"]]))
              cpy == New(cur.h, copy_matrix(cur.h[cur.p]))
              put == cache_put(cache, cpy.h, KeyInput, cpy.p)
          IN /\ heap' = put.h
             /\ cache' = put.c
             /\ ff' = [NoFF EXCEPT !.current_output = cur.p]
             /\ pc' = IF heap[held["input"]].cols # heap[Layer(0).weights].rows
                         THEN "exited" ELSE "ff_loop"
             /\ log' = << KeyInput >>
             /\ deltaAge' = IF deltaAge = "current" THEN "stale" ELSE deltaAge
             /\ UNCHANGED << nn, bp, held, gradOf >>

\* Entry of feedforward(nn, input): the three ASSERTs, the copy of the input
\* into current_output and the store of a second copy under "input".
FeedforwardCall ==
  /\ pc = "idle"
  /\ calls < MaxCalls
  /\ NoResultHeld
  /\ calls' = calls + 1
  /\ IF \/ held["input"] = NULL
        \/ heap[held["input"]].cols # heap[Layer(0).weights].rows
        \/ ~Room(heap, 2)
     THEN Exit /\ UNCHANGED << deltaAge, heap, nn, cache, ff, bp, held, gradOf, log >>
     ELSE LET cur == New(heap, copy_matrix(heap[held["input"]]))
              cpy == New(cur.h, copy_matrix(cur.h[cur.p]))
              put == cache_put(cache, cpy.h, KeyInput, cpy.p)
          IN /\ heap' = put.h
             /\ cache' = put.c
             /\ ff' = [NoFF EXCEPT !.current_output = cur.p]
             /\ pc' = "ff_loop"
             /\ log' = << KeyInput >>
             /\ deltaAge' = IF deltaAge = "current" THEN "stale" ELSE deltaAge
             /\ UNCHANGED << nn, bp, held, gradOf >>

\* The first half of the loop body for layer ff.i: the shape ASSERT,
\* z_linear = dot, z = z_linear + bias, and the store of a copy of z.
FeedforwardPreact ==
  /\ pc = "ff_loop"
  /\ ff.i < nn.num_layers
  /\ LET layer == Layer(ff.i)
         cur == heap[ff.current_output]
         W == heap[layer.weights]
         b == heap[layer.bias]
     IN IF \/ cur.cols # W.rows
           \/ b.rows # 1
           \/ W.cols # b.cols
           \/ ~Room(heap, 3)
        THEN Exit /\ UNCHANGED << deltaAge, heap, nn, cache, ff, bp, held, calls,
                               gradOf, log >>
        ELSE LET zl == New(heap, dot_matrix(cur, W))
                 z == New(zl.h, add_bias_to_matrix(zl.h[zl.p], b))
                 cpy == New(z.h, copy_matrix(z.h[z.p]))
                 put == cache_put(cache, cpy.h, KeyZ(ff.i), cpy.p)
             IN /\ heap' = put.h
                /\ cache' = put.c
                /\ ff' = [ff EXCEPT !.z_linear = zl.p, !.z = z.p]
                /\ pc' = "ff_act"
                /\ log' = Append(log, KeyZ(ff.i))
                /\ UNCHANGED << deltaAge, nn, bp, held, calls, gradOf >>

\* The second half: a = activation(z), the store of a copy of a, the release
\* of z_linear, z and the previous current_output, and current_output = a.
FeedforwardActivate ==
  /\ pc = "ff_act"
  /\ LET layer == Layer(ff.i)
     IN IF \/ layer.activation_type = "LEAKY_RELU" /\ layer.leak_parameter < 0
           \/ ~Room(heap, 2)
        THEN Exit /\ UNCHANGED << deltaAge, heap, nn, cache, ff, bp, held, calls,
                               gradOf, log >>
        ELSE LET a == New(heap, activation_for_layer(layer, heap[ff.z]))
                 cpy == New(a.h, copy_matrix(a.h[a.p]))
                 put == cache_put(cache, cpy.h, KeyA(ff.i), cpy.p)
             IN /\ heap' = FreeAll(put.h, {ff.z_linear, ff.z, ff.current_output})
                /\ cache' = put.c
                /\ ff' = [i |-> ff.i + 1, current_output |-> a.p,
                          z_linear |-> NULL, z |-> NULL]
                /\ pc' = "ff_loop"
                /\ log' = Append(log, KeyA(ff.i))
                /\ UNCHANGED << deltaAge, nn, bp, held, calls, gradOf >>

\* A return that hands out the matrix stored under "a_<N-1>" and releases
\* current_output.
FeedforwardReturnStored ==
  /\ pc = "ff_loop"
  /\ ff.i = nn.num_layers
  /\ held' = [held EXCEPT !["output"] = Stored(cache, KeyA(nn.num_layers - 1))]
  /\ heap' = free_matrix(heap, ff.current_output)
  /\ ff' = NoFF
  /\ pc' = "idle"
  /\ UNCHANGED << deltaAge, nn, cache, bp, calls, gradOf, log >>

\* The loop has ended: feedforward returns current_output to the driver.
FeedforwardReturn ==
  /\ pc = "ff_loop"
  /\ ff.i = nn.num_layers
  /\ held' = [held EXCEPT !["output"] = ff.current_output]
  /\ ff' = NoFF
  /\ pc' = "idle"
  /\ UNCHANGED << deltaAge, heap, nn, cache, bp, calls, gradOf, log >>

(***************************************************************************)
(* backpropagate and the gradient accessors (backprop.c).                  *)
(***************************************************************************)
\* SIZE_MAX of the model's size_t.
SIZE_MAX == 2 ^ SizeBits - 1

\* A subtraction that is one too low.
SizeSubOneMore(a, b) == (a - b - 1) % (2 ^ SizeBits)

\* size_t subtraction: wraps modulo 2^SizeBits.
SizeSub(a, b) == (a - b) % (2 ^ SizeBits)

\* A shortcut test that never holds: the special case forgotten.
softmax_cce_never(last_layer, loss_type) == FALSE

\* The test of the special case: softmax on the last layer with CCE.
softmax_cce_shortcut(last_layer, loss_type) ==
  last_layer.activation_type = "SOFTMAX" /\ loss_type = "CCE"

\* The generic delta without the factor a'(z): the chain rule cut short.
output_delta_no_prime(last_layer, grad, y_hat, y_true, z_last) ==
  get_loss_gradient(grad, y_hat, y_true)

\* The value of delta_last on the generic path: dL_da .* a'(z_last).
output_delta_generic(last_layer, grad, y_hat, y_true, z_last) ==
  multiply_matrix(get_loss_gradient(grad, y_hat, y_true),
                  activation_derivative_for_layer(last_layer, z_last))

\* The value of delta_i of a hidden layer:
\* (delta_next dot W_next^T) .* a'_i(z_i).
hidden_delta(layer, delta_next, W_next, z_i) ==
  multiply_matrix(dot_matrix(delta_next, transpose_matrix(W_next)),
                  activation_derivative_for_layer(layer, z_i))

\* The ASSERT of leaky_relu and leaky_relu_prime on the layer's parameter.
LeakOk(layer) ==
  layer.activation_type = "LEAKY_RELU" => layer.leak_parameter >= 0

\* Entry of backpropagate(nn, y_true, loss_type, loss_func_grad) up to the
\* store of delta_last and the initialisation of the loop index.
BackpropagateCall(loss_type, grad) ==
  /\ pc = "idle"
  /\ calls < MaxCalls
  /\ NoResultHeld
  /\ calls' = calls + 1
  /\ LET last_index == nn.num_layers - 1
         last_layer == Layer(last_index)
         shortcut == softmax_cce_shortcut(last_layer, loss_type)
         a_last == Stored(cache, KeyA(last_index))
         z_stored == Stored(cache, KeyZ(last_index))
         ok == /\ held["y_true"] # NULL
               /\ a_last # NULL
               /\ SameShape(heap[a_last], heap[held["y_true"]])
               /\ shortcut \/ /\ z_stored # NULL
                              /\ LeakOk(last_layer)
                              /\ SameShape(heap[a_last], heap[z_stored])
               /\ Room(heap, 5)
     IN IF ~ok
        THEN Exit /\ UNCHANGED << deltaAge, heap, nn, cache, ff, bp, held, gradOf, log >>
        ELSE LET y_true == heap[held["y_true"]]
                 y_hat == cache_get(cache, heap, KeyA(last_index))
                 \* dL_da, z_last and act_prime_last live only in the generic
                 \* branch and are freed before the store.
                 dL_da == New(y_hat.h, get_loss_gradient(grad, y_hat.h[y_hat.p], y_true))
                 z_last == cache_get(cache, dL_da.h, KeyZ(last_index))
                 act_prime ==
                   New(z_last.h,
                       activation_derivative_for_layer(last_layer, z_last.h[z_last.p]))
                 delta_last ==
                   IF shortcut
                     THEN New(y_hat.h, subtract_matrix(y_hat.h[y_hat.p], y_true))
                     ELSE LET d == New(act_prime.h,
                                       output_delta_generic(
                                         last_layer, grad, y_hat.h[y_hat.p],
                                         y_true, z_last.h[z_last.p]))
                          IN [h |-> FreeAll(d.h, {dL_da.p, z_last.p, act_prime.p}),
                              p |-> d.p]
                 put == cache_put(cache, delta_last.h, KeyDelta(last_index),
                                  delta_last.p)
             IN /\ heap' = free_matrix(put.h, y_hat.p)
                /\ cache' = put.c
                /\ bp' = [i |-> SizeSub(last_index, 1),
                          y_true |-> held["y_true"],
                          loss_type |-> loss_type, grad |-> grad]
                /\ pc' = "bp_loop"
                /\ log' = << KeyDelta(last_index) >>
                /\ deltaAge' = "current"
                /\ UNCHANGED << nn, ff, held, gradOf >>

\* One iteration of the hidden-layer loop, for i = bp.i.
BackpropagateHidden ==
  /\ pc = "bp_loop"
  /\ bp.i # SIZE_MAX
  /\ LET i == bp.i
         d_stored == Stored(cache, KeyDelta(i + 1))
         z_stored == Stored(cache, KeyZ(i))
         W_next == heap[Layer(i + 1).weights]
         ok == /\ d_stored # NULL
               /\ heap[d_stored].cols = W_next.cols
               /\ z_stored # NULL
               /\ LeakOk(Layer(i))
               /\ heap[d_stored].rows = heap[z_stored].rows
               /\ W_next.rows = heap[z_stored].cols
               /\ Room(heap, 6)
     IN IF ~ok
        THEN Exit /\ UNCHANGED << deltaAge, heap, nn, cache, ff, bp, held, calls,
                               gradOf, log >>
        ELSE LET delta_next == cache_get(cache, heap, KeyDelta(i + 1))
                 W_next_T == New(delta_next.h, transpose_matrix(W_next))
                 propagated ==
                   New(W_next_T.h,
                       dot_matrix(W_next_T.h[delta_next.p], W_next_T.h[W_next_T.p]))
                 z_i == cache_get(cache, propagated.h, KeyZ(i))
                 act_prime_i ==
                   New(z_i.h, activation_derivative_for_layer(Layer(i), z_i.h[z_i.p]))
                 delta_i ==
                   New(act_prime_i.h,
                       hidden_delta(Layer(i), act_prime_i.h[delta_next.p], W_next,
                                    act_prime_i.h[z_i.p]))
                 put == cache_put(cache, delta_i.h, KeyDelta(i), delta_i.p)
             IN /\ heap' = FreeAll(put.h, {delta_next.p, W_next_T.p, propagated.p,
                                           z_i.p, act_prime_i.p})
                /\ cache' = put.c
                /\ bp' = [bp EXCEPT !.i = SizeSub(i, 1)]
                /\ log' = Append(log, KeyDelta(i))
                /\ UNCHANGED << deltaAge, nn, pc, ff, held, calls, gradOf >>

\* The loop index has wrapped to SIZE_MAX: backpropagate returns.
BackpropagateReturn ==
  /\ pc = "bp_loop"
  /\ bp.i = SIZE_MAX
  /\ pc' = "idle"
  /\ bp' = NoBP
  /\ UNCHANGED << deltaAge, heap, nn, cache, ff, held, calls, gradOf, log >>

\* The key of the layer's own activation instead of the previous one.
KeyPrevSame(layer_index) ==
  IF layer_index = 0 THEN KeyInput ELSE KeyA(layer_index)

\* The key of a_prev in calculate_weight_gradient.
KeyPrev(layer_index) ==
  IF layer_index = 0 THEN KeyInput ELSE KeyA(layer_index - 1)

\* The value calculate_weight_gradient returns: a_prev^T dot delta_i.
weight_gradient_value(a_prev, delta_i) ==
  dot_matrix(transpose_matrix(a_prev), delta_i)

\* calculate_weight_gradient(nn->cache, layer_index, total_layers); the
\* driver keeps the result in its slot "grad".
CalculateWeightGradient(layer_index, total_layers) ==
  /\ pc = "idle"
  /\ NoResultHeld
  /\ LET a_stored == Stored(cache, KeyPrev(layer_index))
         d_stored == Stored(cache, KeyDelta(layer_index))
         ok == /\ layer_index < total_layers
               /\ a_stored # NULL
               /\ d_stored # NULL
               /\ heap[a_stored].rows = heap[d_stored].rows
               /\ Room(heap, 4)
     IN IF ~ok
        THEN Exit /\ UNCHANGED << deltaAge, heap, nn, cache, ff, bp, held, calls,
                               gradOf, log >>
        ELSE LET a_prev == cache_get(cache, heap, KeyPrev(layer_index))
                 delta_i == cache_get(cache, a_prev.h, KeyDelta(layer_index))
                 a_prev_T == New(delta_i.h, transpose_matrix(delta_i.h[a_prev.p]))
                 grad_W ==
                   New(a_prev_T.h,
                       weight_gradient_value(a_prev_T.h[a_prev.p],
                                             a_prev_T.h[delta_i.p]))
             IN /\ heap' = FreeAll(grad_W.h, {a_prev.p, delta_i.p, a_prev_T.p})
                /\ held' = [held EXCEPT !["grad"] = grad_W.p]
                /\ gradOf' = [kind |-> "weight", layer |-> layer_index]
                /\ UNCHANGED << deltaAge, nn, cache, pc, ff, bp, calls, log >>

\* An accessor that keeps what it computed: it stores a copy of the bias
\* gradient under "db_<i>" before it returns it.
CalculateBiasGradientStored(layer_index, total_layers) ==
  /\ pc = "idle"
  /\ NoResultHeld
  /\ layer_index < total_layers
  /\ Stored(cache, KeyDelta(layer_index)) # NULL
  /\ Room(heap, 3)
  /\ LET delta_i == cache_get(cache, heap, KeyDelta(layer_index))
         db == New(delta_i.h, sum_matrix_columns(delta_i.h[delta_i.p]))
         cpy == New(db.h, copy_matrix(db.h[db.p]))
         put == cache_put(cache, cpy.h, << 100, 98, 95 >> \o Digits(layer_index),
                          cpy.p)
     IN /\ heap' = free_matrix(put.h, delta_i.p)
        /\ cache' = put.c
        /\ held' = [held EXCEPT !["grad"] = db.p]
        /\ gradOf' = [kind |-> "bias", layer |-> layer_index]
        /\ UNCHANGED << deltaAge, nn, pc, ff, bp, calls, log >>

\* An accessor that returns a 1x1 zero gradient when "delta_<i>" is absent.
CalculateBiasGradientZero(layer_index, total_layers) ==
  /\ pc = "idle"
  /\ NoResultHeld
  /\ LET d_stored == Stored(cache, KeyDelta(layer_index))
     IN IF layer_index >= total_layers \/ ~Room(heap, 2)
        THEN Exit /\ UNCHANGED << deltaAge, heap, nn, cache, ff, bp, held, calls,
                               gradOf, log >>
        ELSE LET delta_i == cache_get(cache, heap, KeyDelta(layer_index))
                 db == IF d_stored = NULL
                         THEN New(heap, Matrix(1, 1, << 0 >>))
                         ELSE New(delta_i.h, sum_matrix_columns(delta_i.h[delta_i.p]))
             IN /\ heap' = free_matrix(db.h, delta_i.p)
                /\ held' = [held EXCEPT !["grad"] = db.p]
                /\ gradOf' = [kind |-> "bias", layer |-> layer_index]
                /\ UNCHANGED << deltaAge, nn, cache, pc, ff, bp, calls, log >>

\* calculate_bias_gradient(nn->cache, layer_index, total_layers).
CalculateBiasGradient(layer_index, total_layers) ==
  /\ pc = "idle"
  /\ NoResultHeld
  /\ LET d_stored == Stored(cache, KeyDelta(layer_index))
         ok == /\ layer_index < total_layers
               /\ d_stored # NULL
               /\ Room(heap, 2)
     IN IF ~ok
        THEN Exit /\ UNCHANGED << deltaAge, heap, nn, cache, ff, bp, held, calls,
                               gradOf, log >>
        ELSE LET delta_i == cache_get(cache, heap, KeyDelta(layer_index))
                 db == New(delta_i.h, sum_matrix_columns(delta_i.h[delta_i.p]))
             IN /\ heap' = free_matrix(db.h, delta_i.p)
                /\ held' = [held EXCEPT !["grad"] = db.p]
                /\ gradOf' = [kind |-> "bias", layer |-> layer_index]
                /\ UNCHANGED << deltaAge, nn, cache, pc, ff, bp, calls, log >>

\* The driver clears the network's cache between cycles.
ClearCache ==
  /\ pc = "idle"
  /\ NoResultHeld
  /\ cache # << >>
  /\ cache' = clear_cache(cache, heap).c
  /\ heap' = clear_cache(cache, heap).h
  /\ deltaAge' = IF deltaAge = "none" THEN "none" ELSE "cleared"
  /\ UNCHANGED << nn, pc, ff, bp, held, calls, gradOf, log >>

\* free_network(nn): every layer's weights and bias, then free_cache.
FreeNetwork ==
  /\ pc = "idle"
  /\ NoResultHeld
  /\ LET layerPtrs == UNION {{nn.layers[i].weights, nn.layers[i].bias} :
                               i \in 1..nn.num_layers}
     IN heap' = clear_cache(cache, FreeAll(heap, layerPtrs)).h
  /\ cache' = << >>
  /\ pc' = "freed"
  /\ deltaAge' = IF deltaAge = "none" THEN "none" ELSE "cleared"
  /\ UNCHANGED << nn, ff, bp, held, calls, gradOf, log >>

Next ==
  \/ \E b \in Batches : NewBatch(b)
  \/ \E s \in {"output", "grad"} : FreeHeld(s)
  \/ FeedforwardCall
  \/ FeedforwardPreact
  \/ FeedforwardActivate
  \/ FeedforwardReturn
  \/ \E lc \in LossCalls : BackpropagateCall(lc[1], lc[2])
  \/ BackpropagateHidden
  \/ BackpropagateReturn
  \/ \E i \in 0..nn.num_layers : CalculateWeightGradient(i, nn.num_layers)
  \/ \E i \in 0..nn.num_layers : CalculateBiasGradient(i, nn.num_layers)
  \/ ClearCache
  \/ FreeNetwork

Spec == Init /\ [][Next]_vars

(***************************************************************************)
(* A driver that only runs forward passes and writes to and releases the   *)
(* matrices it owns: its input and the output feedforward returned.        *)
(***************************************************************************)
\* The driver's own matrices.
OwnSlots == {"input", "output"}

\* The driver overwrites the first element of a matrix it owns.
MutateHeld(s) ==
  /\ pc = "idle"
  /\ held[s] # NULL
  /\ heap[held[s]].data[1] # Written
  /\ heap' = [heap EXCEPT ![held[s]].data[1] = Written]
  /\ UNCHANGED << deltaAge, nn, cache, pc, ff, bp, held, gradOf, calls, log >>

\* A batch whose input has one feature where every first layer takes two.
NarrowBatch ==
  [input |-> Matrix(1, 1, << 4 >>), y_true |-> Matrix(1, 2, << 0, 4 >>)]

\* feedforward(NULL, input): the first ASSERT ends the process.
FeedforwardNullNetwork ==
  /\ pc = "idle"
  /\ calls < MaxCalls
  /\ NoResultHeld
  /\ Exit
  /\ UNCHANGED << deltaAge, heap, nn, cache, ff, bp, held, gradOf, calls, log >>

NextOwn ==
  \/ \E b \in Batches \cup {NarrowBatch} : NewBatch(b)
  \/ FeedforwardNullNetwork
  \/ \E s \in OwnSlots : MutateHeld(s)
  \/ \E s \in OwnSlots : FreeHeld(s)
  \/ FeedforwardCall
  \/ FeedforwardPreact
  \/ FeedforwardActivate
  \/ FeedforwardReturn

SpecOwn == Init /\ [][NextOwn]_vars

(***************************************************************************)
(* A driver that runs forward and backward passes, clears the cache, and   *)
(* may store a prediction under "a_<L>" itself with cache_put.             *)
(***************************************************************************)
\* cache_put(nn->cache, "a_<L>", copy_matrix(y_true)): the driver stores a
\* matrix of the target's shape as the last layer's activation.
PutActivation ==
  /\ pc = "idle"
  /\ calls < MaxCalls
  /\ NoResultHeld
  /\ held["y_true"] # NULL
  /\ Room(heap, 1)
  /\ calls' = calls + 1
  /\ LET cpy == New(heap, copy_matrix(heap[held["y_true"]]))
         put == cache_put(cache, cpy.h, KeyA(nn.num_layers - 1), cpy.p)
     IN /\ heap' = put.h
        /\ cache' = put.c
  /\ UNCHANGED << deltaAge, nn, pc, ff, bp, held, gradOf, log >>

\* The networks of this driver and the next: a sigmoid or a softmax layer
\* alone, sigmoid under softmax, and softmax under sigmoid.
InitTwoKinds ==
  /\ Init
  /\ Layer(0).activation_type \in {"SIGMOID", "SOFTMAX"}

\* The (loss_type, loss_func_grad) pairs of this driver: one that takes the
\* chain rule on every network, and CCE, which a softmax last layer settles
\* by y_hat - y_true.
BackLossCalls == { << "MSE", "MSE_GRAD" >>, << "CCE", "CCE_GRAD" >> }

NextBack ==
  \/ \E b \in Batches : NewBatch(b)
  \/ FreeHeld("output")
  \/ FeedforwardCall
  \/ FeedforwardPreact
  \/ FeedforwardActivate
  \/ FeedforwardReturn
  \/ PutActivation
  \/ ClearCache
  \/ \E lc \in BackLossCalls : BackpropagateCall(lc[1], lc[2])
  \/ BackpropagateHidden
  \/ BackpropagateReturn

SpecBack == InitTwoKinds /\ [][NextBack]_vars

(***************************************************************************)
(* A driver of the gradient accessors: forward and backward passes, the    *)
(* accessors on every layer index up to num_layers, and clear_cache.       *)
(***************************************************************************)
NextGrad ==
  \/ \E b \in Batches : NewBatch(b)
  \/ \E s \in {"output", "grad"} : FreeHeld(s)
  \/ FeedforwardCall
  \/ FeedforwardPreact
  \/ FeedforwardActivate
  \/ FeedforwardReturn
  \/ \E lc \in BackLossCalls : BackpropagateCall(lc[1], lc[2])
  \/ BackpropagateHidden
  \/ BackpropagateReturn
  \/ \E i \in 0..nn.num_layers : CalculateWeightGradient(i, nn.num_layers)
  \/ \E i \in 0..nn.num_layers : CalculateBiasGradient(i, nn.num_layers)
  \/ ClearCache

SpecGrad == InitTwoKinds /\ [][NextGrad]_vars

(***************************************************************************)
(* The cache on its own: a driver that creates a cache and calls its       *)
(* interface directly, as test_cache_functionality does.                   *)
(***************************************************************************)
\* "test_key", and two keys, "a@" and "b!", that hash to the same bucket.
KeyTest == << 116, 101, 115, 116, 95, 107, 101, 121 >>
KeyA_At == << 97, 64 >>
KeyB_Bang == << 98, 33 >>
TestKeys == {KeyTest, KeyA_At, KeyB_Bang}

\* The matrices the driver creates and fills: 1 x 1 holding 10.0 and
\* 1 x 2 holding 20.0 and 1.0.
CacheValues ==
  { Matrix(1, 1, << 10 * Unit >>), Matrix(1, 2, << 20 * Unit, Unit >>) }

\* The driver's pointers: the matrix it has created and not yet passed to
\* cache_put, the pointer it last passed to cache_put (its own copy of the
\* pointer value, which the call does not change), and the results of two
\* calls of cache_get.
GotSlots == {"got1", "got2"}
CacheSlots == {"m", "kept"} \cup GotSlots

\* create_cache(): every bucket NULL; the driver holds nothing.
InitCache ==
  /\ heap = << >>
  /\ nn = [num_layers |-> 0, layers |-> << >>]
  /\ cache = << >>
  /\ pc = "idle"
  /\ ff = NoFF
  /\ bp = NoBP
  /\ held = [s \in CacheSlots |-> NULL]
  /\ gradOf = NoGrad
  /\ calls = 0
  /\ log = << >>
  /\ deltaAge = "none"

\* m = create_matrix(r, c) followed by the driver's writes of its elements.
NewMatrix(v) ==
  /\ pc = "idle"
  /\ held["m"] = NULL
  /\ IF ~Room(heap, 1)
     THEN Exit /\ UNCHANGED << deltaAge, heap, nn, cache, ff, bp, held, gradOf, calls, log >>
     ELSE /\ heap' = New(heap, v).h
          /\ held' = [held EXCEPT !["m"] = New(heap, v).p]
          /\ UNCHANGED << deltaAge, nn, cache, pc, ff, bp, gradOf, calls, log >>

\* cache_put(cache, key, m) on the matrix the driver created: the cache takes
\* the pointer; the driver still has its value.
CachePut(key) ==
  /\ pc = "idle"
  /\ calls < MaxCacheOps
  /\ held["m"] # NULL
  /\ calls' = calls + 1
  /\ cache' = cache_put(cache, heap, key, held["m"]).c
  /\ heap' = cache_put(cache, heap, key, held["m"]).h
  /\ held' = [held EXCEPT !["m"] = NULL, !["kept"] = held["m"]]
  /\ log' = Append(log, key)
  /\ UNCHANGED << deltaAge, nn, pc, ff, bp, gradOf >>

\* cache_put(cache, key, NULL): the call returns at its first test.
CachePutNull(key) ==
  /\ pc = "idle"
  /\ calls < MaxCacheOps
  /\ calls' = calls + 1
  /\ cache' = cache_put(cache, heap, key, NULL).c
  /\ heap' = cache_put(cache, heap, key, NULL).h
  /\ UNCHANGED << deltaAge, nn, pc, ff, bp, held, gradOf, log >>

\* cache_put(cache, key, m) while malloc has no memory for a CacheEntry.
CachePutNoMemory(key) ==
  /\ pc = "idle"
  /\ calls < MaxCacheOps
  /\ held["m"] # NULL
  /\ calls' = calls + 1
  /\ cache' = cache_put_no_entry(cache, heap, key, held["m"]).c
  /\ heap' = cache_put_no_entry(cache, heap, key, held["m"]).h
  /\ held' = [held EXCEPT !["m"] = NULL, !["kept"] = held["m"]]
  /\ UNCHANGED << deltaAge, nn, pc, ff, bp, gradOf, log >>

\* slot = cache_get(cache, key); copy_matrix exits when malloc fails.
CacheGet(slot, key) ==
  /\ pc = "idle"
  /\ calls < MaxCacheOps
  /\ held[slot] = NULL
  /\ calls' = calls + 1
  /\ IF Stored(cache, key) # NULL /\ ~Room(heap, 1)
     THEN Exit /\ UNCHANGED << deltaAge, heap, nn, cache, ff, bp, held, gradOf, log >>
     ELSE /\ heap' = cache_get(cache, heap, key).h
          /\ held' = [held EXCEPT ![slot] = cache_get(cache, heap, key).p]
          /\ UNCHANGED << deltaAge, nn, cache, pc, ff, bp, gradOf, log >>

\* slot->matrix_data[0] = 3.0 on a matrix cache_get returned.
MutateGot(slot) ==
  /\ pc = "idle"
  /\ held[slot] # NULL
  /\ heap' = [heap EXCEPT ![held[slot]].data[1] = Written]
  /\ UNCHANGED << deltaAge, nn, cache, pc, ff, bp, held, gradOf, calls, log >>

\* m->matrix_data[0] = 3.0 through the pointer the driver passed to cache_put.
MutateKept ==
  /\ pc = "idle"
  /\ held["kept"] # NULL
  /\ heap' = [heap EXCEPT ![held["kept"]].data[1] = Written]
  /\ UNCHANGED << deltaAge, nn, cache, pc, ff, bp, held, gradOf, calls, log >>

\* free_matrix(slot) on a matrix cache_get returned.
FreeGot(slot) ==
  /\ pc = "idle"
  /\ held[slot] # NULL
  /\ heap' = free_matrix(heap, held[slot])
  /\ held' = [held EXCEPT ![slot] = NULL]
  /\ UNCHANGED << deltaAge, nn, cache, pc, ff, bp, gradOf, calls, log >>

\* clear_cache(cache)
CacheClear ==
  /\ pc = "idle"
  /\ calls < MaxCacheOps
  /\ cache # << >>
  /\ calls' = calls + 1
  /\ cache' = clear_cache(cache, heap).c
  /\ heap' = clear_cache(cache, heap).h
  /\ held' = [held EXCEPT !["kept"] = NULL]
  /\ log' = << >>
  /\ UNCHANGED << deltaAge, nn, pc, ff, bp, gradOf >>

\* free_cache(cache): clear_cache, then the container is released.
FreeCache ==
  /\ pc = "idle"
  /\ cache' = clear_cache(cache, heap).c
  /\ heap' = clear_cache(cache, heap).h
  /\ held' = [held EXCEPT !["kept"] = NULL]
  /\ pc' = "freed"
  /\ UNCHANGED << deltaAge, nn, ff, bp, gradOf, calls, log >>

NextCache ==
  \/ \E v \in CacheValues : NewMatrix(v)
  \/ \E k \in TestKeys : CachePut(k)
  \/ \E s \in GotSlots, k \in TestKeys : CacheGet(s, k)
  \/ \E s \in GotSlots : MutateGot(s)
  \/ \E s \in GotSlots : FreeGot(s)
  \/ CacheClear
  \/ FreeCache

SpecCache == InitCache /\ [][NextCache]_vars

\* A driver that keeps writing through the pointer it passed to cache_put,
\* and makes the calls of cache_put that store nothing: a NULL matrix, and
\* a malloc that has no memory for the entry.
NextPut ==
  \/ \E v \in CacheValues : NewMatrix(v)
  \/ \E k \in TestKeys : CachePut(k)
  \/ MutateKept
  \/ \E k \in TestKeys : CachePutNull(k)
  \/ \E k \in TestKeys : CachePutNoMemory(k)
  \/ \E s \in GotSlots, k \in TestKeys : CacheGet(s, k)
  \/ \E s \in GotSlots : FreeGot(s)

SpecPut == InitCache /\ [][NextPut]_vars

(***************************************************************************)
(* Properties.                                                             *)
(***************************************************************************)
\* Element (i, j) of a matrix, rows and columns counted from 0.
At(m, i, j) == m.data[i * m.cols + j + 1]

RowsOf(m) == 0..(m.rows - 1)
ColsOf(m) == 0..(m.cols - 1)

\* The sum of f[k] for k in 0..n-1.
RECURSIVE SumTo(_, _)
SumTo(n, f) == IF n = 0 THEN 0 ELSE SumTo(n - 1, f) + f[n - 1]

\* The key names of the cache namespace, written out: "input", "z_<i>",
\* "a_<i>", "delta_<i>" for a one-digit index.
NameInput == << 105, 110, 112, 117, 116 >>
NameZ(i) == << 122, 95, 48 + i >>
NameA(i) == << 97, 95, 48 + i >>
NameDelta(i) == << 100, 101, 108, 116, 97, 95, 48 + i >>

\* The key has an entry.
Has(key) == Stored(cache, key) # NULL

\* The matrix stored under a key that has an entry.
Cached(key) == heap[Stored(cache, key)]

LastIndex == nn.num_layers - 1

\* backpropagate is past the store of delta_last.
InBackprop == pc = "bp_loop"

\* The last layer is softmax and the loss kind passed is CCE.
ShortcutCase ==
  Layer(LastIndex).activation_type = "SOFTMAX" /\ bp.loss_type = "CCE"

\* Some element of the matrix is not zero.
NonZero(m) == \E k \in 1..Len(m.data) : m.data[k] # 0

\* C1: with softmax on the last layer and loss kind CCE, the entry
\* "delta_<L>" that backpropagate stores is y_hat - y_true elementwise, y_hat
\* being the entry "a_<L>": no loss gradient and no derivative enters it.
C1_SoftmaxCceDelta ==
  (InBackprop /\ ShortcutCase) =>
    LET d == Cached(NameDelta(LastIndex))
        y_hat == Cached(NameA(LastIndex))
        y_true == heap[bp.y_true]
    IN /\ d.rows = y_hat.rows
       /\ d.cols = y_hat.cols
       /\ \A i \in RowsOf(d), j \in ColsOf(d) :
            At(d, i, j) = At(y_hat, i, j) - At(y_true, i, j)

\* C1 witness: the shortcut was taken (called with the CCE gradient function,
\* which would give another value) and produced a delta that is not zero.
C1_Witness ==
  /\ InBackprop
  /\ ShortcutCase
  /\ bp.grad = "CCE_GRAD"
  /\ NonZero(Cached(NameDelta(LastIndex)))
  /\ Cached(NameDelta(LastIndex)) #
       output_delta_generic(Layer(LastIndex), bp.grad, Cached(NameA(LastIndex)),
                            heap[bp.y_true], Cached(NameZ(LastIndex)))

\* The layers whose delta the hidden-layer loop has stored so far.
HiddenDone == {i \in 0..(LastIndex - 1) : bp.i = SIZE_MAX \/ i > bp.i}

\* C2: for every hidden layer i the loop has passed, "delta_<i>" is
\* (delta_{i+1} . W_{i+1}^T) multiplied elementwise by the derivative of
\* layer i at "z_<i>", of shape batch rows x layer[i].weights.cols.  The
\* derivative is the one activation_derivative_for_layer selects for the
\* layer's kind.
C2_HiddenDelta ==
  InBackprop =>
    \A i \in HiddenDone :
      LET d == Cached(NameDelta(i))
          d_next == Cached(NameDelta(i + 1))
          W_next == heap[Layer(i + 1).weights]
          z == Cached(NameZ(i))
          prime == activation_derivative_for_layer(Layer(i), z)
          Propagated(r, c) ==
            SumTo(d_next.cols,
                  [k \in ColsOf(d_next) |->
                     FMul(At(d_next, r, k), At(W_next, c, k))])
      IN /\ d.rows = heap[bp.y_true].rows
         /\ d.cols = heap[Layer(i).weights].cols
         /\ \A r \in RowsOf(d), c \in ColsOf(d) :
              At(d, r, c) = FMul(Propagated(r, c), At(prime, r, c))

\* C2 witness: a hidden delta was stored, not zero, through a weight
\* matrix that its transpose differs from.
C2_Witness ==
  /\ InBackprop
  /\ HiddenDone # {}
  /\ \E i \in HiddenDone :
       /\ NonZero(Cached(NameDelta(i)))
       /\ heap[Layer(i + 1).weights].rows = 2
       /\ heap[Layer(i + 1).weights].cols = 2

\* C3: outside the softmax + CCE case, "delta_<L>" is the loss gradient of
\* ("a_<L>", y_true) multiplied elementwise by the derivative of the last
\* layer at "z_<L>", the one activation_derivative_for_layer selects for the
\* layer's kind.
C3_GenericOutputDelta ==
  (InBackprop /\ ~ShortcutCase) =>
    LET d == Cached(NameDelta(LastIndex))
        y_hat == Cached(NameA(LastIndex))
        dL_da == get_loss_gradient(bp.grad, y_hat, heap[bp.y_true])
        prime == activation_derivative_for_layer(Layer(LastIndex),
                                                 Cached(NameZ(LastIndex)))
    IN /\ d.rows = y_hat.rows
       /\ d.cols = y_hat.cols
       /\ \A i \in RowsOf(d), j \in ColsOf(d) :
            At(d, i, j) = FMul(At(dL_da, i, j), At(prime, i, j))

\* C3 witness: the generic path ran with loss kind CCE on a last layer that is
\* not softmax (sigmoid), and the derivative changed the loss gradient.
C3_Witness ==
  /\ InBackprop
  /\ ~ShortcutCase
  /\ NonZero(Cached(NameDelta(LastIndex)))
  /\ Layer(LastIndex).activation_type = "SIGMOID"
  /\ bp.loss_type = "CCE"
  /\ Cached(NameDelta(LastIndex)) #
       get_loss_gradient(bp.grad, Cached(NameA(LastIndex)), heap[bp.y_true])

\* The keys delta_<L>, delta_<L-1>, ..., of which the first n.
DescendingDeltas(n) == [k \in 1..n |-> NameDelta(LastIndex - (k - 1))]

\* C4: within a call of backpropagate the delta entries are written in the
\* order delta_<L>, delta_<L-1>, ..., delta_<0>, and the loop is left (the
\* call returns) only with every layer's delta written and present.
C4_DescendingOrder ==
  InBackprop =>
    /\ Len(log) <= nn.num_layers
    /\ log = DescendingDeltas(Len(log))
    /\ bp.i = SIZE_MAX =>
         /\ Len(log) = nn.num_layers
         /\ \A i \in 0..LastIndex : Has(NameDelta(i))

\* C4 witness: a call on a network with a hidden layer is about to return.
C4_Witness ==
  /\ InBackprop
  /\ bp.i = SIZE_MAX
  /\ nn.num_layers >= 2
  /\ log = << NameDelta(1), NameDelta(0) >>

\* The driver holds the result of calculate_weight_gradient.
HoldsWeightGradient == gradOf.kind = "weight" /\ held["grad"] # NULL

\* The driver holds the result of calculate_bias_gradient.
HoldsBiasGradient == gradOf.kind = "bias" /\ held["grad"] # NULL

\* C5: the matrix calculate_weight_gradient returns for layer i is
\* a_prev^T . delta_i, a_prev being "input" for i = 0 and "a_<i-1>" otherwise
\* and delta_i being "delta_<i>", and has the shape of layer i's weights.
C5_WeightGradient ==
  HoldsWeightGradient =>
    LET i == gradOf.layer
        g == heap[held["grad"]]
        a_prev == Cached(IF i = 0 THEN NameInput ELSE NameA(i - 1))
        d == Cached(NameDelta(i))
        W == heap[Layer(i).weights]
    IN /\ g.rows = W.rows
       /\ g.cols = W.cols
       /\ \A r \in RowsOf(g), c \in ColsOf(g) :
            At(g, r, c) =
              SumTo(d.rows, [b \in RowsOf(d) |-> FMul(At(a_prev, b, r), At(d, b, c))])

\* C5 witness: after a complete feedforward and backpropagate on a two-row
\* batch, the gradient of a layer above the first was returned, not zero.
C5_Witness ==
  /\ HoldsWeightGradient
  /\ gradOf.layer = 1
  /\ Len(log) = nn.num_layers
  /\ log[1] = NameDelta(LastIndex)
  /\ Cached(NameDelta(1)).rows = 2
  /\ NonZero(heap[held["grad"]])

\* C6: the matrix calculate_bias_gradient returns for layer i holds the column
\* sums of "delta_<i>" over all batch rows, as a 1 x D_out row vector of the
\* shape of layer i's bias.
C6_BiasGradient ==
  HoldsBiasGradient =>
    LET i == gradOf.layer
        g == heap[held["grad"]]
        d == Cached(NameDelta(i))
        bias == heap[Layer(i).bias]
    IN /\ g.rows = 1
       /\ g.rows = bias.rows
       /\ g.cols = bias.cols
       /\ \A j \in ColsOf(g) :
            At(g, 0, j) = SumTo(d.rows, [b \in RowsOf(d) |-> At(d, b, j)])

\* C6 witness: after a complete backpropagate on a two-row batch, a bias
\* gradient was returned whose delta has a first row that is not zero.
C6_Witness ==
  /\ HoldsBiasGradient
  /\ Len(log) = nn.num_layers
  /\ log[1] = NameDelta(LastIndex)
  /\ Cached(NameDelta(gradOf.layer)).rows = 2
  /\ \E j \in ColsOf(Cached(NameDelta(gradOf.layer))) :
       At(Cached(NameDelta(gradOf.layer)), 0, j) # 0

(***************************************************************************)
(* The forward pass as the design states it: the table of activations and  *)
(* z_i = a_{i-1} . W_i + bias, a_i = activation_i(z_i).                     *)
(***************************************************************************)
\* The largest element of a non-empty set of integers.
Max(S) == CHOOSE x \in S : \A y \in S : y <= x

\* The table's forward value of an elementwise kind at x, with leak alpha.
TableActivation(kind, alpha, x) ==
  CASE kind = "SIGMOID" -> FDiv(Unit, Unit + Exp(-x))
    [] kind = "RELU" -> Max({0, x})
    [] kind = "TANH" -> Tanh(x)
    [] kind = "LEAKY_RELU" -> IF x > 0 THEN x ELSE FMul(alpha, x)
    [] kind = "SIGN" -> IF x > 0 THEN Unit ELSE IF x < 0 THEN -Unit ELSE 0
    [] kind = "IDENTITY" -> x
    [] kind = "HARD_TANH" -> Max({-Unit, IF x < Unit THEN x ELSE Unit})

\* Row-wise softmax of element (r, c): exp(x - rowmax) over the row's sum.
TableSoftmax(z, r, c) ==
  LET mx == Max({At(z, r, j) : j \in ColsOf(z)})
  IN FDiv(Exp(At(z, r, c) - mx),
          SumTo(z.cols, [j \in ColsOf(z) |-> Exp(At(z, r, j) - mx)]))

\* A matrix given by its elements.
MatrixOf(r, c, F(_, _)) ==
  Matrix(r, c, [k \in 1..(r * c) |-> F((k - 1) \div c, (k - 1) % c)])

\* The activation of a layer applied to z.
ForwardActivation(layer, z) ==
  MatrixOf(z.rows, z.cols,
           LAMBDA r, c :
             IF layer.activation_type = "SOFTMAX" THEN TableSoftmax(z, r, c)
             ELSE TableActivation(layer.activation_type, layer.leak_parameter,
                                  At(z, r, c)))

\* The pre-activation of a layer on the previous activation.
ForwardPreactivation(layer, a_prev) ==
  LET W == heap[layer.weights]
      bias == heap[layer.bias]
  IN MatrixOf(a_prev.rows, W.cols,
              LAMBDA r, c :
                SumTo(a_prev.cols,
                      [k \in ColsOf(a_prev) |-> FMul(At(a_prev, r, k), At(W, k, c))])
                + At(bias, 0, c))

\* a_i of the network on input x; a_{-1} is x.
RECURSIVE ForwardA(_, _)
ForwardA(x, i) ==
  IF i < 0 THEN x
  ELSE ForwardActivation(Layer(i), ForwardPreactivation(Layer(i), ForwardA(x, i - 1)))

\* z_i of the network on input x.
ForwardZ(x, i) == ForwardPreactivation(Layer(i), ForwardA(x, i - 1))

\* feedforward has returned and the driver holds its result.
Returned == held["output"] # NULL

\* C7: on a chain-compatible network and an input of matching width, the
\* matrix feedforward returns equals a_{N-1}, computed layer by layer as
\* a_i = activation_i(a_{i-1} . W_i + bias on every row), and has shape
\* input.rows x layer[N-1].weights.cols.
C7_FeedforwardValue ==
  Returned =>
    LET out == heap[held["output"]]
        x == heap[held["input"]]
    IN /\ out = ForwardA(x, LastIndex)
       /\ out.rows = x.rows
       /\ out.cols = heap[Layer(LastIndex).weights].cols

\* C7 witness: feedforward returned on a two-layer network and a two-row
\* batch.
C7_Witness ==
  /\ Returned
  /\ nn.num_layers >= 2
  /\ heap[held["input"]].rows = 2
  /\ NonZero(heap[held["output"]])

\* The keys "input", z_0, a_0, z_1, a_1, ..., of which the first n.
ForwardKeys(n) ==
  [k \in 1..n |->
     IF k = 1 THEN NameInput
     ELSE IF k % 2 = 0 THEN NameZ((k - 2) \div 2) ELSE NameA((k - 3) \div 2)]

\* C8: feedforward writes "input" first and then, layer by layer, "z_<i>"
\* before "a_<i>"; when it returns, "input" equals the external input and
\* every layer has its pre-activation under "z_<i>" and its post-activation
\* under "a_<i>".
C8_ForwardCache ==
  (log # << >> /\ log[1] = NameInput) =>
    /\ Len(log) <= 1 + 2 * nn.num_layers
    /\ log = ForwardKeys(Len(log))
    /\ Returned =>
         LET x == heap[held["input"]]
         IN /\ Len(log) = 1 + 2 * nn.num_layers
            /\ Has(NameInput)
            /\ Cached(NameInput) = x
            /\ \A i \in 0..LastIndex :
                 /\ Has(NameZ(i))
                 /\ Has(NameA(i))
                 /\ Cached(NameZ(i)) = ForwardZ(x, i)
                 /\ Cached(NameA(i)) = ForwardA(x, i)

\* C8 witness: feedforward returned on a two-layer network whose two
\* pre-activations differ from their activations.
C8_Witness ==
  /\ Returned
  /\ nn.num_layers >= 2
  /\ log = << NameInput, NameZ(0), NameA(0), NameZ(1), NameA(1) >>
  /\ Cached(NameZ(0)) # Cached(NameA(0))
  /\ Cached(NameZ(1)) # Cached(NameA(1))

(***************************************************************************)
(* The cache's interface (SpecCache).                                      *)
(***************************************************************************)
\* The driver holds a matrix in the slot.
Holds(s) == held[s] # NULL

\* The matrix behind a slot the driver holds.
HeldMatrix(s) == heap[held[s]]

\* A matrix equal to M in shape and elements.
EqualMatrix(a, b) ==
  /\ a.rows = b.rows
  /\ a.cols = b.cols
  /\ \A i \in 1..(a.rows * a.cols) : a.data[i] = b.data[i]

\* In the state after the step, cache_get on the key returns a matrix equal
\* to M.
GetAfter(k, M) ==
  LET g == cache_get(cache', heap', k)
  IN g.p # NULL /\ EqualMatrix(g.h[g.p], M)

\* The step leaves the entry of k as it is: same pointer, same contents.
EntryKept(k) ==
  /\ Stored(cache, k)' = Stored(cache, k)
  /\ Stored(cache, k) \in DOMAIN heap'
  /\ heap'[Stored(cache, k)] = Cached(k)

\* The step leaves the matrix the driver holds in the slot as it is.
CopyKept(s) ==
  /\ held'[s] = held[s]
  /\ held[s] \in DOMAIN heap'
  /\ heap'[held[s]] = HeldMatrix(s)

\* C9: after cache_put(c, k, M) a cache_get(c, k) returns a matrix equal to
\* M in shape and elements; every cache_get on a present key returns a newly
\* allocated copy of the stored matrix and leaves the entries and the copies
\* returned earlier alone; and mutating or freeing a returned matrix changes
\* no entry and no other returned copy, so a later cache_get(c, k) still
\* equals M.
C9_GetFreshCopy ==
  [][\A k \in TestKeys :
       /\ CachePut(k) =>
            GetAfter(k, HeldMatrix("m"))
       /\ \A s \in GotSlots :
            /\ (CacheGet(s, k) /\ Has(k)) =>
                 /\ held'[s] # NULL
                 /\ held'[s] \notin DOMAIN heap
                 /\ held'[s] \notin CachePointers(cache')
                 /\ EqualMatrix(heap'[held'[s]], Cached(k))
                 /\ \A k2 \in TestKeys : Has(k2) => EntryKept(k2)
                 /\ \A o \in GotSlots \ {s} : Holds(o) => CopyKept(o)
            /\ ((MutateGot(s) \/ FreeGot(s)) /\ Has(k)) =>
                 /\ EntryKept(k)
                 /\ GetAfter(k, Cached(k))
                 /\ \A o \in GotSlots \ {s} : Holds(o) => CopyKept(o)
  ]_vars

\* C9 witness: "test_key" was put once with the 1 x 1 matrix holding 10.0
\* and got twice; the first copy has been overwritten with 3.0, and the entry
\* and the second copy still hold 10.0.
C9_Witness ==
  /\ log = << KeyTest >>
  /\ Holds("got1")
  /\ Holds("got2")
  /\ HeldMatrix("got1") = Matrix(1, 1, << Written >>)
  /\ HeldMatrix("got2") = Matrix(1, 1, << 10 * Unit >>)
  /\ Has(KeyTest)
  /\ Cached(KeyTest) = Matrix(1, 1, << 10 * Unit >>)

\* C10: a cache_put on a key that has an entry frees the matrix stored until
\* then and stores the new pointer in the same entry: a cache_get on the key
\* then returns the new value, the number of entries does not change, and the
\* matrices earlier calls of cache_get returned keep their contents.
C10_PutReplaces ==
  [][\A k \in TestKeys :
       (CachePut(k) /\ Has(k)) =>
         /\ Stored(cache, k) \notin DOMAIN heap'
         /\ Stored(cache, k)' = held["m"]
         /\ GetAfter(k, HeldMatrix("m"))
         /\ Cardinality(CachePointers(cache')) = Cardinality(CachePointers(cache))
         /\ \A k2 \in TestKeys \ {k} : Has(k2) => EntryKept(k2)
         /\ \A s \in GotSlots : Holds(s) => CopyKept(s)
  ]_vars

\* C10 witness: "test_key" was put twice and nothing else: the entry holds
\* the second matrix, 1 x 2, and a copy got between the two puts still
\* holds the first, 1 x 1 with 10.0.
C10_Witness ==
  /\ log = << KeyTest, KeyTest >>
  /\ Holds("got1")
  /\ HeldMatrix("got1") = Matrix(1, 1, << 10 * Unit >>)
  /\ Has(KeyTest)
  /\ Cached(KeyTest) = Matrix(1, 2, << 20 * Unit, Unit >>)
  /\ Cardinality(DOMAIN heap) = 2

\* C11: the cache stores a deep copy of the matrix given to cache_put: a write
\* through the pointer the caller passed changes, for no key, what cache_get
\* returns.
C11_PutStoresCopy ==
  [][MutateKept =>
       \A k \in TestKeys : Has(k) => GetAfter(k, Cached(k))]_vars

(***************************************************************************)
(* The life of the delta entries (Spec).                                   *)
(***************************************************************************)
\* The driver holds a gradient an accessor returned.
HoldsGradient == HoldsWeightGradient \/ HoldsBiasGradient

\* No layer has a "delta_<i>" entry.
NoDeltaVisible == \A i \in 0..LastIndex : ~Has(NameDelta(i))

\* C12 as stated: once a feedforward has run after a backpropagate, with no
\* second backpropagate, no "delta_<i>" entry of the earlier cycle is visible
\* and no accessor returns a gradient computed from one.
C12_NoStaleDelta ==
  deltaAge = "stale" => (NoDeltaVisible /\ ~HoldsGradient)

\* C12 amended: in feedforward, backpropagate, clear_cache, feedforward no
\* "delta_<i>" entry is visible and no accessor returns a gradient; without
\* the clear_cache every delta entry of the earlier cycle is still in the
\* cache after the later feedforward.
C12_DeltasUntilCleared ==
  /\ deltaAge \in {"none", "cleared"} => (NoDeltaVisible /\ ~HoldsGradient)
  /\ (deltaAge = "stale" /\ pc # "freed") =>
       \A i \in 0..LastIndex : Has(NameDelta(i))

\* C12 witness: feedforward has returned after a backpropagate and a
\* clear_cache.
C12_Witness ==
  /\ deltaAge = "cleared"
  /\ Returned
  /\ Has(NameA(LastIndex))

\* Every matrix the cache owns before the step is still allocated, with the
\* same contents, after it.
EntriesKept ==
  \A p \in CachePointers(cache) : p \in DOMAIN heap' /\ heap'[p] = heap[p]

\* C13: a call of calculate_weight_gradient or calculate_bias_gradient, for
\* any layer index and in any state of the cache, adds, replaces and removes
\* no entry and changes no stored matrix; the gradient it returns is the one
\* the same call returns on the cache it leaves behind.
C13_AccessorsPure ==
  [][\A i \in 0..MaxLayers :
       /\ CalculateWeightGradient(i, nn.num_layers) =>
            /\ cache' = cache
            /\ EntriesKept
            /\ pc' = "idle" =>
                 heap'[held'["grad"]] =
                   weight_gradient_value(heap'[Stored(cache', KeyPrev(i))],
                                         heap'[Stored(cache', KeyDelta(i))])
       /\ CalculateBiasGradient(i, nn.num_layers) =>
            /\ cache' = cache
            /\ EntriesKept
            /\ pc' = "idle" =>
                 heap'[held'["grad"]] =
                   sum_matrix_columns(heap'[Stored(cache', KeyDelta(i))])
  ]_vars

\* C13 witness: after a complete backpropagate on two layers, with every
\* delta entry present, calculate_bias_gradient has returned for layer 0.
C13_Witness ==
  /\ HoldsBiasGradient
  /\ gradOf.layer = 0
  /\ nn.num_layers = 2
  /\ deltaAge = "current"
  /\ \A i \in 0..LastIndex : Has(NameDelta(i))

(***************************************************************************)
(* The derivative paired with each activation kind, as the table states it.*)
(***************************************************************************)
\* The table's derivative of an elementwise kind at the pre-activation x,
\* with leak alpha.
TableDerivative(kind, alpha, x) ==
  CASE kind = "SIGMOID" ->
         FMul(FDiv(Unit, Unit + Exp(-x)), Unit - FDiv(Unit, Unit + Exp(-x)))
    [] kind = "RELU" -> IF x > 0 THEN Unit ELSE 0
    [] kind = "TANH" -> Unit - FMul(Tanh(x), Tanh(x))
    [] kind = "LEAKY_RELU" -> IF x > 0 THEN Unit ELSE alpha
    [] kind = "SIGN" -> 0
    [] kind = "IDENTITY" -> Unit
    [] kind = "HARD_TANH" -> IF -Unit < x /\ x < Unit THEN Unit ELSE 0

\* The paired derivative of layer i at element (r, c): for softmax the listed
\* a (1 - a) on the layer's activation, for the other kinds the table's
\* derivative on the cached pre-activation.
PairedDerivative(i, r, c) ==
  IF Layer(i).activation_type = "SOFTMAX"
    THEN FMul(At(Cached(NameA(i)), r, c), Unit - At(Cached(NameA(i)), r, c))
    ELSE TableDerivative(Layer(i).activation_type, Layer(i).leak_parameter,
                         At(Cached(NameZ(i)), r, c))

\* What reaches layer i from above, at element (r, c): the loss gradient for
\* the last layer, delta_{i+1} . W_{i+1}^T for a hidden one.
Upstream(i, r, c) ==
  IF i = LastIndex
    THEN At(get_loss_gradient(bp.grad, Cached(NameA(i)), heap[bp.y_true]), r, c)
    ELSE SumTo(Cached(NameDelta(i + 1)).cols,
               [k \in ColsOf(Cached(NameDelta(i + 1))) |->
                  FMul(At(Cached(NameDelta(i + 1)), r, k),
                       At(heap[Layer(i + 1).weights], c, k))])

\* The layers whose delta the running call has stored through the chain
\* rule: the hidden ones the loop has passed, and the last one outside the
\* softmax + CCE case.
ChainRuleDone ==
  HiddenDone \cup (IF ShortcutCase THEN {} ELSE {LastIndex})

\* The stored delta of every such layer of one of the kinds is the upstream
\* value times the paired derivative.
PairedDeltas(kinds) ==
  InBackprop =>
    \A i \in ChainRuleDone :
      Layer(i).activation_type \in kinds =>
        \A r \in RowsOf(Cached(NameDelta(i))), c \in ColsOf(Cached(NameDelta(i))) :
          At(Cached(NameDelta(i)), r, c) =
            FMul(Upstream(i, r, c), PairedDerivative(i, r, c))

\* C14: for each of the eight kinds of the enumeration, backpropagate applies
\* the derivative paired with the layer's kind.
C14_PairedDerivative == PairedDeltas(ActivationKinds)

(***************************************************************************)
(* Ownership of the output and the input of feedforward.                   *)
(***************************************************************************)
\* Every key a network of at most MaxLayers layers uses.
NetworkKeys ==
  {KeyInput} \cup UNION {{KeyZ(i), KeyA(i), KeyDelta(i)} : i \in 0..(MaxLayers - 1)}

\* cache_get on the key returns the same before and after the step: NULL
\* both times, or matrices equal in shape and elements.
GetSame(k) ==
  LET before == cache_get(cache, heap, k)
      after == cache_get(cache', heap', k)
  IN IF before.p = NULL
       THEN after.p = NULL
       ELSE after.p # NULL /\ EqualMatrix(after.h[after.p], before.h[before.p])

\* C15: the output feedforward returned and the caller's input are objects
\* of the caller alone, none of them the matrix of a cache entry, so a write
\* to one of them or its release changes what cache_get returns for no key.
C15_OutputOwned ==
  [][\A s \in OwnSlots :
       (MutateHeld(s) \/ FreeHeld(s)) =>
         /\ held[s] \notin CachePointers(cache)
         /\ \A k \in NetworkKeys : GetSame(k)]_vars

\* The driver has written to the output of a two-layer pass and to its input
\* while the cache holds the entries of that pass.
C15_Witness ==
  /\ nn.num_layers = 2
  /\ Holds("output") /\ HeldMatrix("output").data[1] = Written
  /\ Holds("input") /\ HeldMatrix("input").data[1] = Written
  /\ Has(KeyA(1)) /\ Has(KeyInput)
  /\ Cached(KeyInput).data[1] # Written

(***************************************************************************)
(* clear_cache and free_cache.                                             *)
(***************************************************************************)
\* On the cache c with heap h, cache_get finds no key, and a cache_put of a
\* matrix followed by cache_get give what they give on the cache
\* create_cache returns.
AsNewCache(c, h) ==
  /\ \A k \in TestKeys : cache_get(c, h, k).p = NULL
  /\ \A k \in TestKeys, p \in DOMAIN h :
       LET put == cache_put(c, h, k, p)
           new == cache_put(<< >>, h, k, p)
       IN /\ put.h = new.h
          /\ \A k2 \in TestKeys :
               cache_get(put.c, put.h, k2) = cache_get(new.c, new.h, k2)

\* C16: clear_cache frees the matrix of every entry and leaves a cache on
\* which cache_get returns NULL for every key and cache_put / cache_get
\* behave as on a new cache, the container still in use; free_cache does
\* the same and ends the container's life.
C16_ClearEmpties ==
  [][(CacheClear \/ FreeCache) =>
       /\ \A p \in CachePointers(cache) : p \notin DOMAIN heap'
       /\ AsNewCache(cache', heap')
       /\ CacheClear => pc' = "idle"
       /\ FreeCache => pc' = "freed"]_vars

\* The cache has been cleared after a put and a get: the driver still holds
\* the copy it got, and the cache has no entry.
C16_Witness ==
  /\ pc = "idle" /\ cache = << >> /\ log = << >>
  /\ Holds("got1") /\ held["got1"] \in DOMAIN heap

(***************************************************************************)
(* Failed preconditions of feedforward.                                    *)
(***************************************************************************)
\* The input the driver passes does not fit the first layer.
InputMismatch ==
  heap[held["input"]].cols # heap[Layer(0).weights].rows

\* current_output does not fit the layer the loop is at.
LayerMismatch ==
  heap[ff.current_output].cols # heap[Layer(ff.i).weights].rows

\* The entries the running call has written so far: "input" and z_j, a_j of
\* every layer below i, one after the other.
RECURSIVE WrittenBelow(_)
WrittenBelow(i) ==
  IF i = 0 THEN << KeyInput >>
  ELSE WrittenBelow(i - 1) \o << KeyZ(i - 1), KeyA(i - 1) >>

\* C17: feedforward ends the process on a NULL network, a NULL input or a
\* layer that current_output does not fit; on the input's mismatch the
\* cache has not been written, and at a layer i > 0 the entries of "input"
\* and of the layers below i stay and none of layer i or above is written.
C17_FeedforwardFatal ==
  [][/\ FeedforwardNullNetwork => (pc' = "exited" /\ cache' = cache /\ heap' = heap)
     /\ (FeedforwardCall /\ (held["input"] = NULL \/ InputMismatch)) =>
          (pc' = "exited" /\ cache' = cache /\ heap' = heap)
     /\ (FeedforwardPreact /\ LayerMismatch) =>
          /\ pc' = "exited" /\ cache' = cache /\ heap' = heap
          /\ log = WrittenBelow(ff.i)
          /\ \A k \in {KeyInput} \cup {KeyZ(j) : j \in 0..(ff.i - 1)}
                        \cup {KeyA(j) : j \in 0..(ff.i - 1)} :
               Stored(cache', k) # NULL /\ Stored(cache', k) \in DOMAIN heap'
          /\ \A j \in ff.i..(nn.num_layers - 1) :
               Stored(cache', KeyZ(j)) = NULL /\ Stored(cache', KeyA(j)) = NULL
    ]_vars

\* A two-layer pass has ended the process at layer 1 with the entries of
\* "input" and of layer 0 in the cache.
C17_Witness ==
  /\ pc = "exited" /\ nn.num_layers = 2 /\ ff.i = 1
  /\ ff.current_output # NULL /\ LayerMismatch
  /\ Has(KeyInput) /\ Has(KeyZ(0)) /\ Has(KeyA(0)) /\ ~Has(KeyZ(1))

(***************************************************************************)
(* backpropagate on a cache that lacks what feedforward stores.            *)
(***************************************************************************)
\* The step ends the process and leaves the cache as it was.
FatalStep == pc' = "exited" /\ cache' = cache

\* C18: backpropagate on a cache without "a_<L>" ends the process and no
\* "delta_<i>" entry exists afterwards; so does a missing "z_<L>" outside
\* the softmax + CCE case, and a missing "z_<i>" at a hidden layer i.
C18_BackpropNeedsForward ==
  [][/\ \A lc \in BackLossCalls :
          BackpropagateCall(lc[1], lc[2]) =>
            /\ ~Has(KeyA(LastIndex)) =>
                 /\ FatalStep
                 /\ \A i \in 0..LastIndex : Stored(cache', KeyDelta(i)) = NULL
            /\ (~softmax_cce_shortcut(Layer(LastIndex), lc[1])
                  /\ ~Has(KeyZ(LastIndex))) => FatalStep
     /\ (BackpropagateHidden /\ ~Has(KeyZ(bp.i))) => FatalStep
    ]_vars

\* backpropagate has ended the process at hidden layer 0 of a two-layer
\* network: "a_1" was there, "z_0" was not, and "delta_1" had been stored.
C18_Witness ==
  /\ pc = "exited" /\ nn.num_layers = 2 /\ bp.i = 0 /\ bp.y_true # NULL
  /\ Has(KeyA(1)) /\ ~Has(KeyZ(0)) /\ Has(KeyDelta(1))

(***************************************************************************)
(* The gradient accessors on an index out of range or a missing key.       *)
(***************************************************************************)
\* The key of what feeds layer i: "input" for layer 0, "a_<i-1>" otherwise.
NamePrev(i) == IF i = 0 THEN KeyInput ELSE KeyA(i - 1)

\* The accessor's step ends the process: no gradient is returned and the
\* cache is as it was.
NoGradient == pc' = "exited" /\ held'["grad"] = NULL /\ cache' = cache

\* C19: calculate_weight_gradient and calculate_bias_gradient end the
\* process without returning a gradient, the cache unchanged, when
\* layer_index >= total_layers or "delta_<i>" is absent, and the weight
\* gradient also when "input" (i = 0) or "a_<i-1>" is absent.
C19_AccessorsFatal ==
  [][\A i \in 0..MaxLayers :
       /\ (/\ CalculateWeightGradient(i, nn.num_layers)
           /\ (i >= nn.num_layers \/ ~Has(KeyDelta(i)) \/ ~Has(NamePrev(i))))
            => NoGradient
       /\ (/\ CalculateBiasGradient(i, nn.num_layers)
           /\ (i >= nn.num_layers \/ ~Has(KeyDelta(i))))
            => NoGradient
    ]_vars

\* After one forward pass and no backward pass an accessor has ended the
\* process: the activations are cached, no delta is.
C19_Witness ==
  /\ pc = "exited" /\ calls = 1 /\ ff = NoFF /\ bp = NoBP
  /\ Has(KeyA(LastIndex)) /\ ~Has(KeyDelta(LastIndex))
  /\ held["grad"] = NULL

(***************************************************************************)
(* cache_put on a NULL matrix or without memory for the entry.             *)
(***************************************************************************)
\* C20: a cache_put with a NULL matrix ends the process, and a cache_put of
\* a matrix, with or without memory for the entry, either ends the process
\* or leaves the matrix stored under the key: no call returns with the
\* value dropped.
C20_PutFatal ==
  [][\A k \in TestKeys :
       /\ CachePutNull(k) => pc' = "exited"
       /\ (CachePut(k) \/ CachePutNoMemory(k)) =>
            (pc' = "exited" \/ Stored(cache', k) = held["m"])
    ]_vars

(***************************************************************************)
(* The matrix algebra on its own: a driver that creates matrices and calls *)
(* the operations of linalg directly, as the tests of add_matrix,          *)
(* dot_matrix and transpose_matrix do, and passes a result on to a second  *)
(* operation.                                                              *)
(***************************************************************************)
\* The column filled in the buffer's own order.
flatten_row_order(m) ==
  Build(m.rows * m.cols, 1, [k \in 0..(m.rows * m.cols - 1) |-> Elem(m, k)])

\* The loop of flatten_column_wise: element k of the new column is read at
\* row i = k mod rows and column j = k div rows, k running over j then i.
flatten_column_wise(m) ==
  Build(m.rows * m.cols, 1,
        [k \in 0..(m.rows * m.cols - 1) |->
           Elem(m, (k % m.rows) * m.cols + (k \div m.rows))])

\* Both axes handled in place: the operand becomes the column and is returned.
flatten_matrix_reshape(h, p, axis) ==
  IF axis = 0
  THEN [h |-> [h EXCEPT ![p] = Matrix(1, @.rows * @.cols, @.data)], p |-> p]
  ELSE [h |-> [h EXCEPT ![p] = flatten_column_wise(@)], p |-> p]

\* flatten_matrix(m, axis) for axis 0 or 1, m the matrix at p: the new heap
\* and the pointer returned.  Axis 0 assigns m->cols and m->rows and returns
\* m; axis 1 returns the matrix flatten_column_wise creates.
flatten_matrix(h, p, axis) ==
  IF axis = 0
  THEN [h |-> [h EXCEPT ![p] = Matrix(1, @.rows * @.cols, @.data)], p |-> p]
  ELSE New(h, flatten_column_wise(h[p]))

add_scalar_to_matrix(m, n) ==
  Build(m.rows, m.cols, [k \in 0..(m.rows * m.cols - 1) |-> Elem(m, k) + n])

scale_matrix(n, m) ==
  Build(m.rows, m.cols,
        [k \in 0..(m.rows * m.cols - 1) |-> FMul(Elem(m, k), n)])

\* memset to 0, then 1.0 at i * n + i.
identity_matrix(n) ==
  Build(n, n, [k \in 0..(n * n - 1) |-> IF k \div n = k % n THEN Unit ELSE 0])

\* The value of *m after fill_matrix(m, n).
fill_matrix(m, n) ==
  Build(m.rows, m.cols, [k \in 0..(m.rows * m.cols - 1) |-> n])

\* sqrt of a double that is a perfect square at the model's resolution.
Sqrt(x) == CHOOSE r \in 0..(x * Unit) : r * r = x * Unit

\* The value of *m after randomize_matrix(m, n), u[k] being the value of
\* rand() / RAND_MAX drawn for element k.
randomize_matrix(m, n, u) ==
  LET min == -FDiv(Unit, Sqrt(n))
      max == FDiv(Unit, Sqrt(n))
      range == max - min
  IN Build(m.rows, m.cols,
           [k \in 0..(m.rows * m.cols - 1) |-> min + FMul(u[k], range)])

\* The operations of one matrix operand (the scalar operations take a scalar
\* besides) and those of two.
UnaryOps ==
  { "copy_matrix", "transpose_matrix", "sum_matrix_columns",
    "add_scalar_to_matrix", "scale_matrix",
    "sigmoid", "sigmoid_prime", "relu", "relu_prime", "tanh_activation",
    "tanh_prime", "leaky_relu", "leaky_relu_prime", "sign_activation",
    "sign_prime", "identity_activation", "identity_prime", "hard_tanh",
    "hard_tanh_prime", "softmax", "softmax_prime" }
BinaryOps ==
  { "add_matrix", "subtract_matrix", "multiply_matrix", "dot_matrix",
    "add_bias_to_matrix" } \cup LossGradKinds

\* The ASSERTs of an operation on its operands: the pointers are not NULL
\* and the shapes are the ones it requires.
Accepts(op, h, p1, p2) ==
  IF p1 = NULL THEN FALSE
  ELSE IF op \in UnaryOps THEN TRUE
  ELSE IF p2 = NULL THEN FALSE
  ELSE CASE op = "dot_matrix" -> h[p1].cols = h[p2].rows
         [] op = "add_bias_to_matrix" ->
              h[p2].rows = 1 /\ h[p1].cols = h[p2].cols
         [] OTHER -> SameShape(h[p1], h[p2])

\* The elements an operation writes into the matrix it has created, m1 and
\* m2 its operands, n its scalar or leak parameter.
ResultOf(op, m1, m2, n) ==
  CASE op = "copy_matrix" -> copy_matrix(m1)
    [] op = "transpose_matrix" -> transpose_matrix(m1)
    [] op = "sum_matrix_columns" -> sum_matrix_columns(m1)
    [] op = "add_scalar_to_matrix" -> add_scalar_to_matrix(m1, n)
    [] op = "scale_matrix" -> scale_matrix(n, m1)
    [] op = "sigmoid" -> sigmoid(m1)
    [] op = "sigmoid_prime" -> sigmoid_prime(m1)
    [] op = "relu" -> relu(m1)
    [] op = "relu_prime" -> relu_prime(m1)
    [] op = "tanh_activation" -> tanh_activation(m1)
    [] op = "tanh_prime" -> tanh_prime(m1)
    [] op = "leaky_relu" -> leaky_relu(m1, n)
    [] op = "leaky_relu_prime" -> leaky_relu_prime(m1, n)
    [] op = "sign_activation" -> sign_activation(m1)
    [] op = "sign_prime" -> sign_prime(m1)
    [] op = "identity_activation" -> identity_activation(m1)
    [] op = "identity_prime" -> identity_prime(m1)
    [] op = "hard_tanh" -> hard_tanh(m1)
    [] op = "hard_tanh_prime" -> hard_tanh_prime(m1)
    [] op = "softmax" -> softmax(m1)
    [] op = "softmax_prime" -> softmax_prime(m1)
    [] op = "add_matrix" -> add_matrix(m1, m2)
    [] op = "subtract_matrix" -> subtract_matrix(m1, m2)
    [] op = "multiply_matrix" -> multiply_matrix(m1, m2)
    [] op = "dot_matrix" -> dot_matrix(m1, m2)
    [] op = "add_bias_to_matrix" -> add_bias_to_matrix(m1, m2)
    [] op \in LossGradKinds -> get_loss_gradient(op, m1, m2)

\* The matrices the driver creates and fills: the operands of test_dot_matrix
\* and test_transpose_matrix, a row, a column and a single element.
MatrixValues ==
  { Matrix(2, 2, << 1 * Unit, 2 * Unit, 3 * Unit, 4 * Unit >>),
    Matrix(2, 2, << 5 * Unit, 6 * Unit, 7 * Unit, 8 * Unit >>),
    Matrix(2, 3, << 1 * Unit, 2 * Unit, 3 * Unit, 4 * Unit, 5 * Unit,
                    6 * Unit >>),
    Matrix(1, 2, << Unit, -2 * Unit >>),
    Matrix(2, 1, << -Unit, 2 >>),
    Matrix(1, 1, << 2 * Unit >>) }

\* The driver's pointers: two operands, the result of an operation on them
\* and the result of an operation on that result.
MatrixSlots == {"a", "b", "r", "s"}

\* Where the result of an operation on the slot goes.
ResultSlot(x) == IF x = "a" THEN "r" ELSE "s"

\* Nothing created yet.
InitMatrix ==
  /\ heap = << >>
  /\ nn = [num_layers |-> 0, layers |-> << >>]
  /\ cache = << >>
  /\ pc = "idle"
  /\ ff = NoFF
  /\ bp = NoBP
  /\ held = [s \in MatrixSlots |-> NULL]
  /\ gradOf = NoGrad
  /\ calls = 0
  /\ log = << >>
  /\ deltaAge = "none"

\* slot = create_matrix(r, c) followed by the driver's writes of its
\* elements, before the driver's first operation.
CreateMatrix(slot, v) ==
  /\ pc = "idle"
  /\ log = << >>
  /\ held[slot] = NULL
  /\ heap' = New(heap, v).h
  /\ held' = [held EXCEPT ![slot] = New(heap, v).p]
  /\ UNCHANGED << deltaAge, nn, cache, pc, ff, bp, gradOf, calls, log >>

\* b = identity_matrix(n); n = 0 fails the ASSERT.
IdentityMatrix(n) ==
  /\ pc = "idle"
  /\ log = << >>
  /\ held["b"] = NULL
  /\ IF n > 0
     THEN /\ heap' = New(heap, identity_matrix(n)).h
          /\ held' = [held EXCEPT !["b"] = New(heap, identity_matrix(n)).p]
          /\ UNCHANGED << deltaAge, nn, cache, pc, ff, bp, gradOf, calls, log >>
     ELSE Exit /\ UNCHANGED << deltaAge, heap, nn, cache, ff, bp, held, gradOf, calls, log >>

\* fill_matrix(a, n), once, before the driver's first operation.
FillMatrix(n) ==
  /\ pc = "idle"
  /\ log = << >>
  /\ calls = 0
  /\ IF held["a"] = NULL
     THEN Exit /\ UNCHANGED << deltaAge, heap, nn, cache, ff, bp, held, gradOf, calls, log >>
     ELSE /\ heap' = [heap EXCEPT ![held["a"]] = fill_matrix(@, n)]
          /\ calls' = calls + 1
          /\ UNCHANGED << deltaAge, nn, cache, pc, ff, bp, held, gradOf, log >>

\* The values of rand() / RAND_MAX the model draws for a buffer: all 0, all
\* 1, or 0 and 1 in turn.
RandDraws(len) ==
  { [k \in 0..(len - 1) |-> 0], [k \in 0..(len - 1) |-> Unit],
    [k \in 0..(len - 1) |-> IF k % 2 = 0 THEN 0 ELSE Unit] }

\* randomize_matrix(a, n) on a matrix the driver holds, once, before its
\* first operation.
RandomizeMatrix(n) ==
  /\ pc = "idle"
  /\ log = << >>
  /\ calls = 0
  /\ held["a"] # NULL
  /\ \E u \in RandDraws(Len(heap[held["a"]].data)) :
       heap' = [heap EXCEPT ![held["a"]] = randomize_matrix(@, n, u)]
  /\ calls' = calls + 1
  /\ UNCHANGED << deltaAge, nn, cache, pc, ff, bp, held, gradOf, log >>

\* dest = op(x), op(x, n) or op(x, b): the operation exits at a failed
\* ASSERT or a failed malloc, or returns the matrix it created.  The scalar
\* and the leak parameter the driver passes are n.  A result is passed on
\* only where there is one.
Apply(op, x, n) ==
  /\ pc = "idle"
  /\ held[ResultSlot(x)] = NULL
  /\ x = "r" => held["r"] # NULL
  /\ op \in LossGradKinds => (held[x] # NULL /\ held["b"] # NULL)
  /\ IF Accepts(op, heap, held[x], held["b"]) /\ Room(heap, 1)
     THEN LET m2 == IF op \in BinaryOps THEN heap[held["b"]] ELSE heap[held[x]]
              res == New(heap, ResultOf(op, heap[held[x]], m2, n))
          IN /\ heap' = res.h
             /\ held' = [held EXCEPT ![ResultSlot(x)] = res.p]
             /\ log' = Append(log, [op |-> op, x |-> x, axis |-> 0])
             /\ UNCHANGED << deltaAge, nn, cache, pc, ff, bp, gradOf, calls >>
     ELSE Exit /\ UNCHANGED << deltaAge, heap, nn, cache, ff, bp, held, gradOf, calls, log >>

\* dest = flatten_matrix(x, axis); an axis other than 0 and 1 fails the
\* ASSERT.
Flatten(x, axis) ==
  /\ pc = "idle"
  /\ held[ResultSlot(x)] = NULL
  /\ x = "r" => held["r"] # NULL
  /\ IF held[x] # NULL /\ axis \in {0, 1} /\ (axis = 1 => Room(heap, 1))
     THEN /\ heap' = flatten_matrix(heap, held[x], axis).h
          /\ held' = [held EXCEPT ![ResultSlot(x)] =
                                     flatten_matrix(heap, held[x], axis).p]
          /\ log' = Append(log, [op |-> "flatten_matrix", x |-> x, axis |-> axis])
          /\ UNCHANGED << deltaAge, nn, cache, pc, ff, bp, gradOf, calls >>
     ELSE Exit /\ UNCHANGED << deltaAge, heap, nn, cache, ff, bp, held, gradOf, calls, log >>

NextMatrix ==
  \/ \E s \in {"a", "b"}, v \in MatrixValues : CreateMatrix(s, v)
  \/ \E n \in 0..2 : IdentityMatrix(n)
  \/ FillMatrix(Written)
  \/ \E n \in {Unit, 4 * Unit} : RandomizeMatrix(n)
  \/ \E op \in UnaryOps \cup BinaryOps, x \in {"a", "r"} : Apply(op, x, Written)
  \/ \E x \in {"a", "r"}, axis \in 0..2 : Flatten(x, axis)

SpecMatrix == InitMatrix /\ [][NextMatrix]_vars

(***************************************************************************)
(* Properties of the matrix algebra.                                       *)
(***************************************************************************)
\* The step is a call of an operation that returned; ThisCall is the call.
CallReturned == Len(log') = Len(log) + 1
ThisCall == log'[Len(log')]

\* The call that returned is flatten_matrix on axis 0.
RowFlatten == ThisCall.op = "flatten_matrix" /\ ThisCall.axis = 0

\* The pointer the call returned.
ResultPointer == held'[ResultSlot(ThisCall.x)]

\* The result is an allocation the step made: an address that was not in
\* use, so the object of no operand.
FreshResult ==
  /\ ResultPointer \notin DOMAIN heap
  /\ ResultPointer \in DOMAIN heap'
  /\ ResultPointer # held[ThisCall.x]
  /\ ResultPointer # held["b"]

\* Every matrix that existed keeps its shape and its elements.
MatricesKept ==
  \A q \in DOMAIN heap : q \in DOMAIN heap' /\ heap'[q] = heap[q]

\* The buffer of every matrix has rows * cols elements.
BufferLengths ==
  \A q \in DOMAIN heap : Len(heap[q].data) = heap[q].rows * heap[q].cols

\* The step is a call of fill_matrix or randomize_matrix.
InPlaceCall == calls' = calls + 1

\* C21 as stated: every operation that returns a matrix, flatten_matrix on
\* either axis included, returns a new allocation and leaves every operand's
\* shape and elements as they were; only fill_matrix and randomize_matrix
\* change a matrix in place; every buffer has rows * cols elements.
C21_EveryResultFresh ==
  [][/\ CallReturned => (FreshResult /\ MatricesKept)
     /\ ~InPlaceCall => MatricesKept
     /\ BufferLengths']_vars

\* C21, amended: every operation that returns a matrix other than
\* flatten_matrix on axis 0 returns a new allocation and leaves every
\* operand's shape and elements as they were; flatten_matrix on axis 0
\* returns its operand, whose shape it has changed to 1 x (rows * cols) with
\* the elements as they were; only fill_matrix, randomize_matrix and
\* flatten_matrix on axis 0 change a matrix in place; every buffer has
\* rows * cols elements.
C21_ResultFreshButRowFlatten ==
  [][/\ (CallReturned /\ ~RowFlatten) => (FreshResult /\ MatricesKept)
     /\ (CallReturned /\ RowFlatten) =>
          LET p == held[ThisCall.x]
          IN /\ ResultPointer = p
             /\ DOMAIN heap' = DOMAIN heap
             /\ \A q \in DOMAIN heap \ {p} : heap'[q] = heap[q]
             /\ heap'[p].rows = 1
             /\ heap'[p].cols = heap[p].rows * heap[p].cols
             /\ heap'[p].data = heap[p].data
     /\ (~InPlaceCall /\ ~(CallReturned /\ RowFlatten)) => MatricesKept
     /\ BufferLengths']_vars

\* A randomized or filled operand, a product of two operands and the
\* column-wise flattening of the product.
C21_Witness ==
  /\ calls = 1
  /\ Len(log) = 2
  /\ log[1].op = "dot_matrix"
  /\ log[2].op = "flatten_matrix" /\ log[2].axis = 1
  /\ held["s"] \in DOMAIN heap
  /\ heap[held["s"]].rows = 4

\* The operations that combine two matrices element by element, and what
\* each does to a pair of elements.
ElementwiseOps == {"add_matrix", "subtract_matrix", "multiply_matrix"}
Combined(op, u, v) ==
  CASE op = "add_matrix" -> u + v
    [] op = "subtract_matrix" -> u - v
    [] op = "multiply_matrix" -> FMul(u, v)

\* The call ends the process and returns nothing: no pointer is handed to
\* the driver and no matrix is created.
FatalCall == pc' = "exited" /\ held' = held /\ heap' = heap

\* C22: add_matrix, subtract_matrix and multiply_matrix on operands of one
\* shape return a matrix of that shape whose element (i, j) is the sum,
\* difference or product of the operands' elements (i, j); with a NULL
\* operand or operands of different shapes the call ends the process and
\* produces no result.
C22_ElementwiseSameShape ==
  [][\A op \in ElementwiseOps, x \in {"a", "r"} :
       Apply(op, x, Written) =>
         IF held[x] # NULL /\ held["b"] # NULL
         THEN LET A == heap[held[x]]
                  B == heap[held["b"]]
              IN IF A.rows = B.rows /\ A.cols = B.cols
                 THEN Room(heap, 1) =>
                        /\ pc' = "idle"
                        /\ held'[ResultSlot(x)] \in DOMAIN heap'
                        /\ LET R == heap'[held'[ResultSlot(x)]]
                           IN /\ R.rows = A.rows /\ R.cols = A.cols
                              /\ Len(R.data) = A.rows * A.cols
                              /\ \A i \in RowsOf(A), j \in ColsOf(A) :
                                   At(R, i, j) = Combined(op, At(A, i, j), At(B, i, j))
                 ELSE FatalCall
         ELSE FatalCall
    ]_vars

\* The difference of the two 2 x 2 operands of the tests has been returned.
C22_Witness ==
  /\ pc = "idle"
  /\ Len(log) = 1
  /\ log[1].op = "subtract_matrix"
  /\ held["r"] \in DOMAIN heap
  /\ heap[held["r"]].rows = 2 /\ heap[held["r"]].cols = 2
  /\ heap[held["a"]] # heap[held["b"]]

\* C23: dot_matrix(A, B) on operands with A.cols = B.rows returns an
\* A.rows x B.cols matrix whose element (i, j) is the sum over k of
\* A[i][k] * B[k][j]; with A.cols # B.rows the call ends the process; and
\* when B is identity_matrix(A.cols) the result equals A.
C23_DotProduct ==
  [][\A x \in {"a", "r"} :
       Apply("dot_matrix", x, Written) =>
         IF held[x] # NULL /\ held["b"] # NULL
         THEN LET A == heap[held[x]]
                  B == heap[held["b"]]
              IN IF A.cols = B.rows
                 THEN Room(heap, 1) =>
                        /\ pc' = "idle"
                        /\ held'[ResultSlot(x)] \in DOMAIN heap'
                        /\ LET R == heap'[held'[ResultSlot(x)]]
                           IN /\ R.rows = A.rows /\ R.cols = B.cols
                              /\ Len(R.data) = A.rows * B.cols
                              /\ \A i \in RowsOf(A), j \in ColsOf(B) :
                                   At(R, i, j) =
                                     SumTo(A.cols,
                                           [k \in 0..(A.cols - 1) |->
                                              FMul(At(A, i, k), At(B, k, j))])
                              /\ B = identity_matrix(A.cols) => EqualMatrix(R, A)
                 ELSE FatalCall
         ELSE FatalCall
    ]_vars

\* A 2 x 2 operand that is not the identity has been multiplied by
\* identity_matrix(2).
C23_Witness ==
  /\ pc = "idle"
  /\ Len(log) = 1
  /\ log[1].op = "dot_matrix"
  /\ held["a"] \in DOMAIN heap /\ held["b"] \in DOMAIN heap
  /\ heap[held["b"]] = identity_matrix(2)
  /\ heap[held["a"]].rows = 2 /\ heap[held["a"]].cols = 2
  /\ heap[held["a"]] # identity_matrix(2)
  /\ held["r"] \in DOMAIN heap

\* C24: transpose_matrix(M) returns a cols x rows matrix whose element
\* (j, i) is M[i][j]; and the transpose of a matrix that is itself the
\* transpose of M equals M.
C24_Transpose ==
  [][\A x \in {"a", "r"} :
       (Apply("transpose_matrix", x, Written) /\ pc' = "idle") =>
         LET M == heap[held[x]]
             R == heap'[held'[ResultSlot(x)]]
         IN /\ R.rows = M.cols /\ R.cols = M.rows
            /\ Len(R.data) = M.rows * M.cols
            /\ \A i \in RowsOf(M), j \in ColsOf(M) : At(R, j, i) = At(M, i, j)
            /\ (x = "r" /\ log[1].op = "transpose_matrix") =>
                 EqualMatrix(R, heap[held["a"]])
    ]_vars

\* The 2 x 3 matrix of the test has been transposed and the result
\* transposed again.
C24_Witness ==
  /\ Len(log) = 2
  /\ log[1].op = "transpose_matrix" /\ log[2].op = "transpose_matrix"
  /\ held["s"] \in DOMAIN heap
  /\ heap[held["a"]].rows = 2 /\ heap[held["a"]].cols = 3
  /\ heap[held["r"]].rows = 3 /\ heap[held["r"]].cols = 2
  /\ heap[held["r"]].data # heap[held["a"]].data

\* C25: flatten_matrix(M, 0) yields a 1 x (rows * cols) row vector whose
\* buffer is M's in the same row-major order; flatten_matrix(M, 1) yields a
\* new (rows * cols) x 1 column vector whose k-th element is
\* M[k mod rows][k div rows], M staying as it was; any other axis ends the
\* process.
C25_Flatten ==
  [][\A x \in {"a", "r"}, axis \in 0..2 :
       (Flatten(x, axis) /\ held[x] # NULL) =>
         LET M == heap[held[x]]
             n == M.rows * M.cols
         IN CASE axis = 0 ->
                   /\ pc' = "idle"
                   /\ held'[ResultSlot(x)] \in DOMAIN heap'
                   /\ LET R == heap'[held'[ResultSlot(x)]]
                      IN /\ R.rows = 1 /\ R.cols = n
                         /\ Len(R.data) = n
                         /\ \A i \in RowsOf(M), j \in ColsOf(M) :
                              At(R, 0, i * M.cols + j) = At(M, i, j)
              [] axis = 1 ->
                   Room(heap, 1) =>
                     /\ pc' = "idle"
                     /\ held'[ResultSlot(x)] \notin DOMAIN heap
                     /\ held'[ResultSlot(x)] \in DOMAIN heap'
                     /\ heap'[held[x]] = M
                     /\ LET R == heap'[held'[ResultSlot(x)]]
                        IN /\ R.rows = n /\ R.cols = 1
                           /\ Len(R.data) = n
                           /\ \A k \in 0..(n - 1) :
                                At(R, k, 0) = At(M, k % M.rows, k \div M.rows)
              [] OTHER -> FatalCall
    ]_vars

\* The 2 x 3 matrix has been flattened on axis 1 into a column that is not
\* in the buffer's order, and the column on axis 0 into a row.
C25_Witness ==
  /\ Len(log) = 2
  /\ log[1].op = "flatten_matrix" /\ log[1].axis = 1
  /\ log[2].op = "flatten_matrix" /\ log[2].axis = 0
  /\ heap[held["a"]].rows = 2 /\ heap[held["a"]].cols = 3
  /\ held["s"] \in DOMAIN heap
  /\ heap[held["s"]].rows = 1 /\ heap[held["s"]].cols = 6
  /\ heap[held["s"]].data # heap[held["a"]].data

(***************************************************************************)
(* The cache as a map.                                                     *)
(***************************************************************************)
\* What cache_get returns for a key on a cache and heap: the empty set for
\* NULL, else the set of the one matrix value returned.
Got(c, h, k) ==
  LET g == cache_get(c, h, k)
  IN IF g.p = NULL THEN {} ELSE {g.h[g.p]}

\* The map the cache stands for: each key's value as cache_get reports it.
MapOf(c, h) == [k \in TestKeys |-> Got(c, h, k)]
EmptyMap == [k \in TestKeys |-> {}]

\* No chain holds two entries with one key, and every entry is in the bucket
\* of its key.
OneEntryPerKey(c) ==
  \A b \in DOMAIN c :
    /\ \A i, j \in 1..Len(c[b]) : c[b][i].key = c[b][j].key => i = j
    /\ \A i \in 1..Len(c[b]) : hash(c[b][i].key) = b

\* C26: the cache is a map from keys to matrices.  It starts empty; a
\* cache_put of M under k changes the map at k to M and nowhere else, also
\* when another key shares k's bucket; clear_cache empties the map; no other
\* step changes it; cache_get(k) returns NULL when the map has nothing at k
\* and otherwise a new matrix equal to the one most recently put under k
\* since the last clear; and the table never holds two entries with one key.
C26_CacheIsMap ==
  /\ MapOf(cache, heap) = EmptyMap
  /\ [][/\ \A k \in TestKeys :
             CachePut(k) =>
               MapOf(cache', heap') =
                 [MapOf(cache, heap) EXCEPT ![k] = {heap[held["m"]]}]
        /\ CacheClear => MapOf(cache', heap') = EmptyMap
        /\ ~(CacheClear \/ FreeCache \/ \E k \in TestKeys : CachePut(k)) =>
             MapOf(cache', heap') = MapOf(cache, heap)
        /\ \A s \in GotSlots, k \in TestKeys :
             (CacheGet(s, k) /\ pc' = "idle") =>
               IF MapOf(cache, heap)[k] = {}
               THEN held'[s] = NULL
               ELSE /\ held'[s] \notin DOMAIN heap
                    /\ held'[s] \in DOMAIN heap'
                    /\ {heap'[held'[s]]} = MapOf(cache, heap)[k]
        /\ OneEntryPerKey(cache')
       ]_vars

\* Two keys of one bucket hold different matrices, the one put first has
\* been read back, and the driver has put under that key again.
C26_Witness ==
  /\ hash(KeyA_At) = hash(KeyB_Bang)
  /\ Len(Bucket(cache, hash(KeyA_At))) = 2
  /\ Bucket(cache, hash(KeyA_At))[2].key = KeyA_At
  /\ heap[Stored(cache, KeyA_At)] # heap[Stored(cache, KeyB_Bang)]
  /\ held["got1"] \in DOMAIN heap
  /\ heap[held["got1"]] = heap[Stored(cache, KeyA_At)]

(***************************************************************************)
(* The whole life of a network: cycles of feedforward, backpropagate and   *)
(* the accessors, clear_cache between them or not, and free_network at the *)
(* end.                                                                    *)
(***************************************************************************)
NextLife ==
  \/ \E b \in Batches : NewBatch(b)
  \/ \E s \in {"output", "grad"} : FreeHeld(s)
  \/ FeedforwardCall
  \/ FeedforwardPreact
  \/ FeedforwardActivate
  \/ FeedforwardReturn
  \/ \E lc \in BackLossCalls : BackpropagateCall(lc[1], lc[2])
  \/ BackpropagateHidden
  \/ BackpropagateReturn
  \/ \E i \in 0..(nn.num_layers - 1) : CalculateWeightGradient(i, nn.num_layers)
  \/ \E i \in 0..(nn.num_layers - 1) : CalculateBiasGradient(i, nn.num_layers)
  \/ ClearCache
  \/ FreeNetwork

SpecLife == InitTwoKinds /\ [][NextLife]_vars

\* The matrices each owner refers to: the layers of a network that has not
\* been freed, the driver (its batch and the results returned to it), and
\* feedforward's locals while it runs.
LayerPointers ==
  IF pc = "freed" THEN {}
  ELSE UNION {{nn.layers[i].weights, nn.layers[i].bias} : i \in 1..nn.num_layers}
DriverPointers == {held[s] : s \in DOMAIN held} \ {NULL}
LocalPointers == {ff.current_output, ff.z_linear, ff.z} \ {NULL}

\* The number of entries of the cache.
RECURSIVE EntryCount(_, _)
EntryCount(c, B) ==
  IF B = {} THEN 0
  ELSE LET b == CHOOSE x \in B : TRUE
       IN Len(c[b]) + EntryCount(c, B \ {b})

\* Every allocated matrix has exactly one owner and every owner's pointer is
\* to an allocated matrix: nothing is leaked, nothing freed is still
\* referred to (so nothing can be read or freed after its release), no
\* matrix is shared by two cache entries or by the cache and the caller.
OneOwner ==
  /\ DOMAIN heap =
       LayerPointers \cup CachePointers(cache) \cup DriverPointers
         \cup LocalPointers
  /\ Cardinality(DOMAIN heap) =
       Cardinality(LayerPointers) + EntryCount(cache, DOMAIN cache)
         + Cardinality({s \in DOMAIN held : held[s] # NULL})
         + Cardinality({f \in {"current_output", "z_linear", "z"} :
                          ff[f] # NULL})

\* The step releases a matrix of a cache entry only by replacing it under
\* its key, by clear_cache or by free_cache.
CacheFreesOnly ==
  \A b \in DOMAIN cache : \A n \in 1..Len(cache[b]) :
    cache[b][n].m \notin DOMAIN heap' =>
      \/ ClearCache
      \/ FreeNetwork
      \/ /\ Stored(cache', cache[b][n].key) \in DOMAIN heap'
         /\ log' # << >>
         /\ log'[Len(log')] = cache[b][n].key

\* C27: through every cycle of feedforward, backpropagate and accessor calls
\* up to free_network, each matrix these calls allocate is held by the
\* caller, owned by exactly one cache entry, a local of the running call, or
\* freed; after free_network only what the caller holds is allocated; and a
\* cached matrix is released only by replacement under its key, clear_cache
\* or free_cache.
C27_NoLeakNoDoubleFree ==
  /\ OneOwner
  /\ [][OneOwner' /\ CacheFreesOnly]_vars

\* The network has been freed after three calls, among them a
\* backpropagate, and only the driver's batch is allocated.
C27_Witness ==
  /\ pc = "freed"
  /\ calls = MaxCalls
  /\ deltaAge = "cleared"
  /\ nn.num_layers = 2
  /\ DOMAIN heap = {held["input"], held["y_true"]}

\* The names of the cache namespace by kind, for the layers of the largest
\* network.
ForwardNames ==
  {NameInput} \cup {NameZ(i) : i \in 0..(MaxLayers - 1)}
              \cup {NameA(i) : i \in 0..(MaxLayers - 1)}
DeltaNames == {NameDelta(i) : i \in 0..(MaxLayers - 1)}

\* The keys that have an entry.
EntryKeys(c) == UNION {{c[b][n].key : n \in 1..Len(c[b])} : b \in DOMAIN c}

\* A step of backpropagate: its entry up to the store of delta_last, an
\* iteration of its loop, its return, or its exit at a failed ASSERT.
BackpropStep ==
  \/ \E lc \in BackLossCalls : BackpropagateCall(lc[1], lc[2])
  \/ BackpropagateHidden
  \/ BackpropagateReturn

\* C28: a step of backpropagate adds or replaces entries named "delta_<i>"
\* and nothing else: no entry is removed, every entry under another name
\* ("input", "z_<i>", "a_<i>") keeps its matrix and its elements, and the
\* layers' weights, bias, activation kind and leak parameter and the target
\* y_true are as before.
C28_BackpropWritesDeltasOnly ==
  [][BackpropStep =>
       /\ EntryKeys(cache) \subseteq EntryKeys(cache')
       /\ EntryKeys(cache') \ EntryKeys(cache) \subseteq DeltaNames
       /\ \A k \in EntryKeys(cache) \ DeltaNames :
            /\ Stored(cache', k) = Stored(cache, k)
            /\ Stored(cache, k) \in DOMAIN heap'
            /\ heap'[Stored(cache, k)] = heap[Stored(cache, k)]
       /\ \A k \in ForwardNames : Got(cache', heap', k) = Got(cache, heap, k)
       /\ nn' = nn
       /\ \A i \in 1..nn.num_layers :
            /\ nn.layers[i].weights \in DOMAIN heap'
            /\ heap'[nn.layers[i].weights] = heap[nn.layers[i].weights]
            /\ nn.layers[i].bias \in DOMAIN heap'
            /\ heap'[nn.layers[i].bias] = heap[nn.layers[i].bias]
       /\ held' = held
       /\ held["y_true"] # NULL =>
            /\ held["y_true"] \in DOMAIN heap'
            /\ heap'[held["y_true"]] = heap[held["y_true"]]
    ]_vars

\* A backpropagate on two layers, the third call of the run, has returned
\* with both deltas stored beside the five forward entries.
C28_Witness ==
  /\ pc = "idle"
  /\ nn.num_layers = 2
  /\ calls = MaxCalls
  /\ deltaAge = "current"
  /\ log = << KeyDelta(1), KeyDelta(0) >>
  /\ EntryKeys(cache) = {NameInput, NameZ(0), NameA(0), NameZ(1), NameA(1),
                         NameDelta(0), NameDelta(1)}

\* delta_i as a cycle computes it from nothing but the weights, the input x,
\* the target y and the loss arguments of the call.
RECURSIVE CycleDelta(_, _, _, _, _)
CycleDelta(x, y, loss_type, grad, i) ==
  IF i = nn.num_layers - 1
  THEN IF softmax_cce_shortcut(Layer(i), loss_type)
       THEN subtract_matrix(ForwardA(x, i), y)
       ELSE output_delta_generic(Layer(i), grad, ForwardA(x, i), y,
                                 ForwardZ(x, i))
  ELSE hidden_delta(Layer(i), CycleDelta(x, y, loss_type, grad, i + 1),
                    heap[Layer(i + 1).weights], ForwardZ(x, i))

\* In the state after the step cache_get on the key returns a matrix equal
\* to M in shape and elements.
GetsEqual(k, M) ==
  \E R \in Got(cache', heap', k) : EqualMatrix(R, M)

\* C29: when the backpropagate of a cycle returns, the cache of a network of
\* N layers holds exactly the 3N + 1 entries "input", "z_<i>", "a_<i>",
\* "delta_<i>", each with the value that the weights, the input given to
\* the cycle's feedforward, the target and the loss arguments determine,
\* whatever the cache held before the cycle: nothing, or the entries of
\* earlier calls.
C29_CacheFromCycleOnly ==
  [][/\ (FeedforwardReturn /\ held["input"] # NULL) =>
          GetsEqual(NameInput, heap[held["input"]])
     /\ BackpropagateReturn =>
          LET N == nn.num_layers
              x == heap[Stored(cache, NameInput)]
              y == heap[bp.y_true]
          IN /\ EntryKeys(cache') =
                  {NameInput} \cup {NameZ(i) : i \in 0..(N - 1)}
                              \cup {NameA(i) : i \in 0..(N - 1)}
                              \cup {NameDelta(i) : i \in 0..(N - 1)}
             /\ EntryCount(cache', DOMAIN cache') = 3 * N + 1
             /\ GetsEqual(NameInput, x)
             /\ \A i \in 0..(N - 1) :
                  /\ GetsEqual(NameZ(i), ForwardZ(x, i))
                  /\ GetsEqual(NameA(i), ForwardA(x, i))
                  /\ GetsEqual(NameDelta(i),
                               CycleDelta(x, y, bp.loss_type, bp.grad, i))
    ]_vars

\* The third call of a run on two layers, a backpropagate, has returned:
\* the cache it started on held the entries of the two calls before it.
C29_Witness ==
  /\ pc = "idle"
  /\ calls = MaxCalls
  /\ nn.num_layers = 2
  /\ deltaAge = "current"
  /\ EntryCount(cache, DOMAIN cache) = 7
  /\ held["input"] # NULL
  /\ heap[Stored(cache, NameInput)] = heap[held["input"]]

(***************************************************************************)
(* The hidden-layer loop of backpropagate on deeper networks: a driver     *)
(* that builds a chain of up to MaxDepth layers of width 2 and runs        *)
(* forward and backward passes.  A call that has started goes on until it  *)
(* returns or exits.                                                       *)
(***************************************************************************)
\* Largest number of layers of a network built by InitLoop.
MaxDepth == 3

\* create_network(n) and n layers of 2 x 2 weights, sigmoid on the hidden
\* layers and softmax on the last.
InitLoop ==
  \E n \in 1..MaxDepth :
    /\ heap = [a \in 1..(2 * n) |->
                 IF a % 2 = 1 THEN WeightsOf(2, 2, (a - 1) \div 2)
                              ELSE BiasOf(2)]
    /\ nn = [num_layers |-> n,
             layers |-> [i \in 1..n |->
                           [weights |-> 2 * i - 1,
                            bias |-> 2 * i,
                            activation_type |->
                              IF i = n THEN "SOFTMAX" ELSE "SIGMOID",
                            leak_parameter |-> 0]]]
    /\ cache = << >>
    /\ pc = "idle"
    /\ ff = NoFF
    /\ bp = NoBP
    /\ held = [s \in Slots |-> NULL]
    /\ gradOf = NoGrad
    /\ calls = 0
    /\ log = << >>
    /\ deltaAge = "none"

NextLoop ==
  \/ \E b \in Batches : NewBatch(b)
  \/ FreeHeld("output")
  \/ FeedforwardCall
  \/ FeedforwardPreact
  \/ FeedforwardActivate
  \/ FeedforwardReturn
  \/ \E lc \in BackLossCalls : BackpropagateCall(lc[1], lc[2])
  \/ BackpropagateHidden
  \/ BackpropagateReturn

\* Weak fairness of BackpropagateHidden with its enabling condition written
\* out: the step can be taken exactly when the call is in the loop and the
\* index has not wrapped (it then either exits or moves the index).
HiddenFair ==
  \/ []<>(~(pc = "bp_loop" /\ bp.i # SIZE_MAX))
  \/ []<><<BackpropagateHidden>>_vars

\* The single thread of control does not stop inside a call.
SpecLoop ==
  /\ InitLoop
  /\ [][NextLoop]_vars
  /\ HiddenFair
  /\ WF_vars(BackpropagateReturn)

\* C30: on a network of N >= 1 layers the loop of backpropagate starts at
\* index N - 2, which for N = 1 is already SIZE_MAX so that the body never
\* runs and only "delta_0" is written; each iteration handles the index one
\* below the last, reads only layers i and i + 1 within 0..N-1 and writes
\* "delta_<i>"; the call returns after exactly N - 1 iterations, having
\* visited N-2, ..., 0 once each; and a call in the loop always leaves it.
C30_LoopTerminates ==
  /\ [](pc = "bp_loop" =>
          \/ bp.i = SIZE_MAX /\ Len(log) = nn.num_layers
          \/ /\ bp.i \in 0..(nn.num_layers - 2)
             /\ bp.i = nn.num_layers - 1 - Len(log))
  /\ [][/\ (pc = "idle" /\ pc' = "bp_loop") =>
             /\ log' = << NameDelta(nn.num_layers - 1) >>
             /\ bp'.i = IF nn.num_layers = 1 THEN SIZE_MAX
                        ELSE nn.num_layers - 2
        /\ (BackpropagateHidden /\ pc' = "bp_loop") =>
             /\ bp.i \in 0..(nn.num_layers - 2)
             /\ log' = Append(log, NameDelta(bp.i))
             /\ bp'.i = IF bp.i = 0 THEN SIZE_MAX ELSE bp.i - 1
        /\ BackpropagateReturn =>
             log = [j \in 1..nn.num_layers |-> NameDelta(nn.num_layers - j)]
       ]_vars
  /\ (pc = "bp_loop") ~> (pc \in {"idle", "exited"})

\* On three layers the loop has run twice, for indices 1 and 0, and the
\* index has wrapped.
C30_Witness ==
  /\ pc = "bp_loop"
  /\ nn.num_layers = 3
  /\ bp.i = SIZE_MAX
  /\ log = << NameDelta(2), NameDelta(1), NameDelta(0) >>

====
